---- MODULE Spec2Model ----
(***************************************************************************)
(* Model of the concurrent batch-evaluation engine of tldr-newsletter-     *)
(* filter: the p-limit pool and the ordered batch flusher of               *)
(* src/pipeline/batchProcessor.ts, the main loop of src/index.ts, and the  *)
(* per-link two-stage evaluation of src/pipeline/linkPipeline.ts.          *)
(*                                                                         *)
(* The specifications of the module:                                       *)
(*   Spec           the run of main(): producer, pool, flusher, sink.      *)
(*   FairSpec       Spec with the event loop's progress.                   *)
(*   SpecInterrupt  Spec with the SIGINT / SIGTERM handler.                *)
(*   SpecFlush      the flusher alone, with any client.                    *)
(*   SpecLog        the progress log and its write chain.                  *)
(*   SpecEval       one call of evaluateLink, stepped through its awaits.  *)
(*   SpecRetry      one call of withRetry.                                 *)
(*   SpecBudget     the retried calls of links evaluated concurrently.     *)
(*   SpecFlushFail  SpecFlush with a sink that may reject.                 *)
(*   SpecLogFail    SpecLog with a write that may fail.                    *)
(*   SpecFetch      one call of fetchArticleText, with parseInWorker.      *)
(*   SpecDedupe     the filters on the normalized URL.                     *)
(*   SpecTick       the promise jobs around waitForCapacity.               *)
(***************************************************************************)
EXTENDS Integers, Sequences, FiniteSets, TLC

\* ---------------------------------------------------------------- bounds

\* Number of links the producer (scrapeArchivesBatched) may yield in a run, over all
\* its batches; a batch holds between one and all of them.
MaxLinks == 4

\* config.concurrentLimit, the argument of pLimit (any integer >= 1).
concurrentLimit == 2

Ids == 1..MaxLinks

\* ------------------------------------------------------------- constants

\* types.ts EVALUATED_STATUS
EVALUATED_STATUS ==
  {"matched", "not_matched", "summary_rejected", "fetch_failed", "evaluation_failed"}

\* The statuses a link's promise settles with in Spec. main() and the flusher only
\* test status === 'matched' (index.ts 28-30), so a match, a non-match and a failure
\* stand for the five.
RunStatuses == {"matched", "not_matched", "evaluation_failed"}

None == "none"

VARIABLES
  \* ---- main() and createBatchProcessor
  pc,               \* where main() is suspended
  produced,         \* batches yielded by the producer so far
  submitted,        \* history: every batch passed to queueBatch, as sequences of ids
  pendingBatches,   \* batchProcessor.ts pendingBatches, each batch a sequence of ids
  links,            \* id -> PendingLink fields {resolved, flushed, result}
  queue,            \* p-limit: tasks queued but not started (limit.pendingCount = Len)
  active,           \* p-limit: tasks executing (limit.activeCount = Cardinality)
  inFlightPromises, \* batchProcessor.ts inFlightPromises
  cur,              \* the link whose onResult call (or promise) is awaited, 0 if none
  pos,              \* position of the for-of iterators: <<batch index, link index>>
  sunk,             \* history: ids passed to onResult, in call order
  sunkBy,           \* history: the caller of each onResult call, parallel to sunk
  flushCount,       \* history: how often link.flushed = true was executed, per id
  progress,         \* index.ts progress: id -> recorded status (None if absent)
  counts,           \* index.ts counts {done, matches}
  \* ---- the timers of main() and the process
  progressInterval, \* index.ts progressInterval: TRUE while the interval is armed
  spinnerInterval,  \* terminalDisplay spinnerInterval: TRUE while the spinner runs
  exitCode,         \* <<>> while the process lives, <<code>> after process.exit
  \* ---- one evaluateLink call (SpecEval)
  evPc,
  link,
  config,
  tokens,
  attempt,
  calls,
  summaryResult,
  fetchResult,
  evaluateResult,
  outcome,
  events,           \* history: what each model call returned or threw, in order
  \* ---- one withRetry call (SpecRetry); attempt is its loop variable
  wrPc,             \* where withRetry is suspended
  options,          \* the caller's options
  fnCalls,          \* history: number of fn() invocations
  delays,           \* history: the backoffMs of every delay(), in order
  lastError,        \* withRetry's lastError
  fnOutcome,        \* history: what the latest fn() call returned or threw
  settled,          \* history: what withRetry returned or threw
  \* ---- the retried calls of concurrently evaluated links (SpecBudget)
  items,            \* item -> the retried call it is in and that call's loop state
  \* ---- the progress log (SpecLog)
  logPhase,         \* where the client of the log is: init, open, finalizing, closed
  writeChain,       \* progressLog.ts writeChain: the chained writes not yet finished
  writing,          \* the writeFile calls in flight
  started,          \* history: every write, in the order writeFile was called
  returned,         \* history: the appendProgressLog calls whose await returned
  \* ---- the flusher on its own (SpecFlush)
  flushCalls,       \* history: number of flushCompleted calls
  resolvedSinceFlush, \* history: a link resolved since the latest call began
  \* ---- rejections of the sink (SpecFlushFail, SpecLogFail)
  rejected,         \* history: the links whose onResult call rejected, in order
  chainRejected,    \* progressLog.ts writeChain is a rejected promise
  rejectedCalls,    \* history: the appendProgressLog calls that rejected
  \* ---- fetchArticleText and parseInWorker (SpecFetch)
  faPc,             \* where fetchArticleText is
  faResponse,       \* <<response>> once fetchWithRetry has returned one
  faThrown,         \* history: <<error>> once an await of the try block threw
  faResult,         \* the value fetchArticleText returned
  worker,           \* "none", "running" or "terminated"
  timer,            \* the parse timer is armed
  parseSettled,     \* parseInWorker's `settled`
  parsePromise,     \* <<>> while pending, <<result>> once resolved
  fired,            \* history: the events whose handler has run, in order
  firstResult,      \* history: <<result>> the first event's handler settles with
  resolveCalls,     \* history: calls of resolve
  terminateCalls,   \* history: calls of worker.terminate
  \* ---- the filters on the normalized URL (SpecDedupe)
  seen,             \* scraper.ts 116 `seen`
  queuedUrls,       \* index.ts 64 `queuedUrls`
  scheduledUrls,    \* history: the url of every item handed to the pool, in order
  progressKeys,     \* the keys of the progress map
  recordedItems,    \* the scheduled items appendProgressLog was called for
  overwrites,       \* history: records that wrote a key already in the map
  offered,          \* history: the keys of the links found on the pages
  skipped,          \* history: links dropped by one of the two filters
  pagesRead,        \* archive pages read
  \* ---- the promise jobs around waitForCapacity (SpecTick)
  microtasks,       \* the queue of promise jobs, oldest first
  reactions,        \* per task promise: the reactions registered while it is pending
  taskValue,        \* per task promise: None while pending, else its result
  waitPc,           \* where waitForCapacity is
  raceNo,           \* history: the Promise.race calls made
  raceSettled,      \* the promise of the latest Promise.race is settled
  raceWinner        \* the task that settled it (0: none)

engineVars ==
  <<pc, produced, submitted, pendingBatches, links, queue, active,
    inFlightPromises, cur, pos, sunk, sunkBy, flushCount, progress, counts>>

evalVars ==
  <<evPc, link, config, tokens, attempt, calls, summaryResult, fetchResult,
    evaluateResult, outcome, events>>

retryVars == <<wrPc, options, fnCalls, delays, lastError, fnOutcome, settled>>

shellVars == <<progressInterval, spinnerInterval, exitCode>>

budgetVars == <<items>>

logVars == <<logPhase, writeChain, writing, started, returned>>

flushVars == <<flushCalls, resolvedSinceFlush>>

rejectVars == <<rejected, chainRejected, rejectedCalls>>

fetchVars ==
  <<faPc, faResponse, faThrown, faResult, worker, timer, parseSettled, parsePromise,
    fired, firstResult, resolveCalls, terminateCalls>>

dedupeVars ==
  <<seen, queuedUrls, scheduledUrls, progressKeys, recordedItems, overwrites, offered,
    skipped, pagesRead>>

tickVars ==
  <<microtasks, reactions, taskValue, waitPc, raceNo, raceSettled, raceWinner>>

unitVars == <<fetchVars, dedupeVars, tickVars>>

moreVars == <<rejectVars, unitVars>>

auxVars == <<budgetVars, logVars, flushVars, moreVars>>

vars == <<engineVars, shellVars, evalVars, retryVars, auxVars>>

\* ------------------------------------------------------------ helpers

Range(s) == {s[k] : k \in 1..Len(s)}

RECURSIVE Flatten(_)
Flatten(bs) == IF bs = <<>> THEN <<>> ELSE Head(bs) \o Flatten(Tail(bs))

\* Index of the batch of `submitted` that holds id x (0 when x was never scheduled).
BatchOf(x) ==
  IF \E b \in 1..Len(submitted) : x \in Range(submitted[b])
  THEN CHOOSE b \in 1..Len(submitted) : x \in Range(submitted[b])
  ELSE 0

\* Index of x in the sequence s (s holds x once).
IndexIn(s, x) == CHOOSE k \in 1..Len(s) : s[k] = x

Scheduled == Range(Flatten(submitted))

\* ------------------------------------------------------------ p-limit pool

\* pLimit(concurrentLimit): queued tasks start, in FIFO order, while fewer than
\* concurrentLimit tasks are executing.
\* Mutant of PoolStart: the limit counts only the executing tasks of the batch of the
\* task to start (a per-batch pool).
RECURSIVE PoolStart_PerBatch(_, _)
PoolStart_PerBatch(q, act) ==
  IF q # <<>>
     /\ Cardinality({a \in act : BatchOf(a) = BatchOf(Head(q))}) < concurrentLimit
  THEN PoolStart_PerBatch(Tail(q), act \cup {Head(q)})
  ELSE [queue |-> q, active |-> act]

\* Mutant of PoolStart: a queued task is never started.
PoolStart_Stalls(q, act) == [queue |-> q, active |-> act]

RECURSIVE PoolStart(_, _)
PoolStart(q, act) ==
  IF q # <<>> /\ Cardinality(act) < concurrentLimit
  THEN PoolStart(Tail(q), act \cup {Head(q)})
  ELSE [queue |-> q, active |-> act]

\* ------------------------------------------------------------ flusher

\* The synchronous part of flushCompleted, from link index i of the head batch of
\* pb up to its next await (kind "await": onResult is called on the link at pos) or
\* to its return (kind "return").
\* Mutant of FlushScan: the test !link.flushed is dropped.
RECURSIVE FlushScan_Reflush(_, _, _)
FlushScan_Reflush(pb, i, lk) ==
  IF pb = <<>> THEN [kind |-> "return", pb |-> pb, pos |-> 0]
  ELSE LET batch == Head(pb) IN
    IF i > Len(batch)
    THEN IF \A k \in 1..Len(batch) : lk[batch[k]].flushed
         THEN FlushScan_Reflush(Tail(pb), 1, lk)
         ELSE [kind |-> "return", pb |-> pb, pos |-> 0]
    ELSE IF lk[batch[i]].resolved
         THEN IF lk[batch[i]].result = None
              THEN FlushScan_Reflush(pb, Len(batch) + 1, lk)
              ELSE [kind |-> "await", pb |-> pb, pos |-> i]
         ELSE FlushScan_Reflush(pb, i + 1, lk)

\* Mutant of FlushScan: the head batch is shifted as soon as some link of it is
\* flushed (links.some for links.every).
RECURSIVE FlushScan_ShiftsPartial(_, _, _)
FlushScan_ShiftsPartial(pb, i, lk) ==
  IF pb = <<>> THEN [kind |-> "return", pb |-> pb, pos |-> 0]
  ELSE LET batch == Head(pb) IN
    IF i > Len(batch)
    THEN IF \E k \in 1..Len(batch) : lk[batch[k]].flushed
         THEN FlushScan_ShiftsPartial(Tail(pb), 1, lk)
         ELSE [kind |-> "return", pb |-> pb, pos |-> 0]
    ELSE IF lk[batch[i]].resolved /\ ~lk[batch[i]].flushed
         THEN IF lk[batch[i]].result = None
              THEN FlushScan_ShiftsPartial(pb, Len(batch) + 1, lk)
              ELSE [kind |-> "await", pb |-> pb, pos |-> i]
         ELSE FlushScan_ShiftsPartial(pb, i + 1, lk)

RECURSIVE FlushScan(_, _, _)
FlushScan(pb, i, lk) ==
  IF pb = <<>> THEN [kind |-> "return", pb |-> pb, pos |-> 0]
  ELSE LET batch == Head(pb) IN
    IF i > Len(batch)
    THEN IF \A k \in 1..Len(batch) : lk[batch[k]].flushed
         THEN FlushScan(Tail(pb), 1, lk)
         ELSE [kind |-> "return", pb |-> pb, pos |-> 0]
    ELSE IF lk[batch[i]].resolved /\ ~lk[batch[i]].flushed
         THEN IF lk[batch[i]].result = None
              THEN FlushScan(pb, Len(batch) + 1, lk)   \* if (!result) break
              ELSE [kind |-> "await", pb |-> pb, pos |-> i]
         ELSE FlushScan(pb, i + 1, lk)

\* Mutant of NoCapacity: waitForCapacity never waits.
NoCapacity_Never(q, inflight) == FALSE

\* Mutant of NoCapacity: the test of the tracked promises is inverted.
NoCapacity_NoneInFlight(q, inflight) == Len(q) > 0 /\ Cardinality(inflight) = 0

\* waitForCapacity's loop condition (batchProcessor.ts 45).
NoCapacity(q, inflight) == Len(q) > 0 /\ Cardinality(inflight) > 0

\* Mutant of QueueBatch: unshift for push.
QueueBatch_Unshift(pb, batch) == <<batch>> \o pb

\* queueBatch: the new batch goes to the tail of pendingBatches.
QueueBatch(pb, batch) == Append(pb, batch)

\* Mutant of MarkFlushed: the flag is never set.
MarkFlushed_Never(lk, x) == lk

\* flushCompleted: link.flushed = true after onResult has returned.
MarkFlushed(lk, x) == [lk EXCEPT ![x] = [@ EXCEPT !.flushed = TRUE]]

Rejects_MarksFlushed(lk, x) == [lk EXCEPT ![x] = [@ EXCEPT !.flushed = TRUE]]

\* `await onResult(result)` throws (batchProcessor.ts 70): the assignment of
\* line 71 is not reached, so the flags of link x are what they were.
Rejects(lk, x) == lk

\* Mutant of MarkResolved: the then handler marks the link flushed as well.
MarkResolved_Flushes(lk, x, st) ==
  [lk EXCEPT ![x] = [resolved |-> TRUE, flushed |-> TRUE, result |-> st]]

\* Mutant of MarkResolved: the promise of a failed evaluation rejects, so the then
\* handler does not run.
MarkResolved_UnlessFailed(lk, x, st) ==
  IF st = "evaluation_failed" THEN lk
  ELSE [lk EXCEPT ![x] = [@ EXCEPT !.resolved = TRUE, !.result = st]]

\* queueBatch's promise.then: the result is stored and the link marked resolved.
MarkResolved(lk, x, st) == [lk EXCEPT ![x] = [@ EXCEPT !.resolved = TRUE, !.result = st]]

\* index.ts recordResult, first half: appendProgressLog sets progress[key].
AppendProgress(pr, x, lk) == [pr EXCEPT ![x] = lk[x].result]

\* Mutant of Recount: the counters are left as they are, as when the end of
\* recordResult is not waited for.
Recount_Stale(pr) == counts

\* Mutant of Recount: every record counts as a match.
Recount_AllMatch(pr) ==
  [done    |-> Cardinality({x \in Ids : pr[x] # None}),
   matches |-> Cardinality({x \in Ids : pr[x] # None})]

\* index.ts recordResult, second half: the counters are recomputed from progress.
Recount(pr) ==
  [done    |-> Cardinality({x \in Ids : pr[x] # None}),
   matches |-> Cardinality({x \in Ids : pr[x] = "matched"})]

\* Main runs flushCompleted on the queue pb from link index i of its head batch: to
\* its next await (onResult is called), or to its return and on into
\* waitForCapacity's loop condition.
RunFlush(pb, i, lk, q, inflight) ==
  LET r == FlushScan(pb, i, lk) IN
    /\ pendingBatches' = r.pb
    /\ IF r.kind = "await"
       THEN LET x == Head(r.pb)[r.pos] IN
            /\ pc' = "onResult"
            /\ cur' = x
            /\ pos' = <<1, r.pos>>
            /\ sunk' = Append(sunk, x)
            /\ sunkBy' = Append(sunkBy, "flushCompleted")
            /\ progress' = AppendProgress(progress, x, lk)
       ELSE /\ pc' = IF NoCapacity(q, inflight) THEN "race" ELSE "scrape"
            /\ cur' = 0
            /\ pos' = <<0, 0>>
            /\ UNCHANGED <<sunk, sunkBy, progress>>

\* Mutant of FlushAllNext: the test if (link.flushed) continue is dropped.
FlushAllNext_NoSkip(pb, b, i, lk) ==
  LET cand == {p \in (1..Len(pb)) \X (1..MaxLinks) :
                 /\ p[2] <= Len(pb[p[1]])
                 /\ (p[1] > b \/ (p[1] = b /\ p[2] >= i))}
  IN IF cand = {} THEN <<0, 0>>
     ELSE CHOOSE p \in cand :
            \A o \in cand : p[1] < o[1] \/ (p[1] = o[1] /\ p[2] <= o[2])

\* Mutant of FlushAllNext: flushAll's loops deliver nothing.
FlushAllNext_Nothing(pb, b, i, lk) == <<0, 0>>

\* flushAll's two for-of loops: the first link at or after link i of batch b that is
\* not flushed (<<0, 0>> when the loops are over).
FlushAllNext(pb, b, i, lk) ==
  LET cand == {p \in (1..Len(pb)) \X (1..MaxLinks) :
                 /\ p[2] <= Len(pb[p[1]])
                 /\ (p[1] > b \/ (p[1] = b /\ p[2] >= i))
                 /\ ~lk[pb[p[1]][p[2]]].flushed}
  IN IF cand = {} THEN <<0, 0>>
     ELSE CHOOSE p \in cand :
            \A o \in cand : p[1] < o[1] \/ (p[1] = o[1] /\ p[2] <= o[2])

\* flushAll goes on from link i of batch b: it awaits the promise of the next
\* unflushed link, or empties the queue and returns to main, which releases the
\* timer and the display and calls finalizeProgressLog (index.ts 140-150).
RunFlushAll(b, i) ==
  LET p == FlushAllNext(pendingBatches, b, i, links) IN
    IF p = <<0, 0>>
    THEN /\ pendingBatches' = <<>>          \* pendingBatches.length = 0
         /\ pc' = "finalize"
         /\ cur' = 0
         /\ pos' = <<0, 0>>
         /\ progressInterval' = FALSE       \* index.ts 142 clearInterval
         /\ spinnerInterval' = FALSE        \* index.ts 144 display.stop()
         /\ UNCHANGED exitCode
    ELSE /\ pc' = "flushAllPromise"
         /\ cur' = pendingBatches[p[1]][p[2]]
         /\ pos' = p
         /\ UNCHANGED pendingBatches
         /\ UNCHANGED shellVars

\* ------------------------------------------------------------ init

InitEngine ==
  /\ pc = "scrape"
  /\ produced = 0
  /\ submitted = <<>>
  /\ pendingBatches = <<>>
  /\ links = [x \in Ids |-> [resolved |-> FALSE, flushed |-> FALSE, result |-> None]]
  /\ queue = <<>>
  /\ active = {}
  /\ inFlightPromises = {}
  /\ cur = 0
  /\ pos = <<0, 0>>
  /\ sunk = <<>>
  /\ sunkBy = <<>>
  /\ flushCount = [x \in Ids |-> 0]
  /\ progress = [x \in Ids |-> None]
  /\ counts = [done |-> 0, matches |-> 0]

\* index.ts 68-70: no timer is armed before the first batch; the process lives.
InitShell ==
  /\ progressInterval = FALSE
  /\ spinnerInterval = FALSE
  /\ exitCode = <<>>

InitBudgetIdle == items = <<>>

InitLogIdle ==
  /\ logPhase = "idle"
  /\ writeChain = <<>>
  /\ writing = {}
  /\ started = <<>>
  /\ returned = {}

InitFlushIdle ==
  /\ flushCalls = 0
  /\ resolvedSinceFlush = FALSE

InitRejectIdle ==
  /\ rejected = <<>>
  /\ chainRejected = FALSE
  /\ rejectedCalls = {}

InitParseIdle ==
  /\ worker = "none"
  /\ timer = FALSE
  /\ parseSettled = FALSE
  /\ parsePromise = <<>>
  /\ fired = <<>>
  /\ firstResult = <<>>
  /\ resolveCalls = 0
  /\ terminateCalls = 0

InitFetchIdle ==
  /\ faPc = "idle"
  /\ faResponse = <<>>
  /\ faThrown = <<>>
  /\ faResult = <<>>
  /\ InitParseIdle

InitDedupeIdle ==
  /\ seen = {}
  /\ queuedUrls = {}
  /\ scheduledUrls = <<>>
  /\ progressKeys = {}
  /\ recordedItems = {}
  /\ overwrites = 0
  /\ offered = {}
  /\ skipped = 0
  /\ pagesRead = 0

InitTickIdle ==
  /\ microtasks = <<>>
  /\ reactions = [x \in Ids |-> <<>>]
  /\ taskValue = [x \in Ids |-> None]
  /\ waitPc = "idle"
  /\ raceNo = 0
  /\ raceSettled = FALSE
  /\ raceWinner = 0

InitUnitIdle == InitFetchIdle /\ InitDedupeIdle /\ InitTickIdle

InitMoreIdle == InitRejectIdle /\ InitUnitIdle

InitAuxIdle == InitBudgetIdle /\ InitLogIdle /\ InitFlushIdle /\ InitMoreIdle

InitEvalIdle ==
  /\ evPc = "idle"
  /\ link = <<>>
  /\ config = <<>>
  /\ tokens = <<>>
  /\ attempt = 0
  /\ calls = <<>>
  /\ summaryResult = <<>>
  /\ fetchResult = <<>>
  /\ evaluateResult = <<>>
  /\ outcome = <<>>
  /\ events = <<>>

InitRetryIdle ==
  /\ wrPc = "idle"
  /\ options = <<>>
  /\ fnCalls = 0
  /\ delays = <<>>
  /\ lastError = <<>>
  /\ fnOutcome = <<>>
  /\ settled = <<>>

Init == InitEngine /\ InitShell /\ InitEvalIdle /\ InitRetryIdle /\ InitAuxIdle

\* ------------------------------------------------------------ actions of main()

\* The producer yields a batch of n new links (index.ts 89-134): every link is
\* scheduled on the pool and tracked, the batch is queued, and flushCompleted runs
\* to its first await.
ProducerYield(n) ==
  /\ pc = "scrape"
  /\ Len(Flatten(submitted)) + n <= MaxLinks
  /\ LET first == Len(Flatten(submitted)) + 1
         batch == [k \in 1..n |-> first + k - 1]
         pool  == PoolStart(queue \o batch, active)
         infl  == inFlightPromises \cup Range(batch)
     IN /\ produced' = produced + 1
        /\ submitted' = Append(submitted, batch)
        /\ queue' = pool.queue
        /\ active' = pool.active
        /\ inFlightPromises' = infl
        /\ RunFlush(QueueBatch(pendingBatches, batch), 1, links, pool.queue, infl)
  /\ progressInterval' = TRUE      \* index.ts 114-124, armed by the first batch
  /\ spinnerInterval' = TRUE       \* display.startSpinner
  /\ UNCHANGED <<links, flushCount, counts, exitCode>>
  /\ UNCHANGED <<evalVars, retryVars, auxVars>>

\* The producer is exhausted (index.ts 138-140): flushAll starts.
ProducerDone ==
  /\ pc = "scrape"
  /\ RunFlushAll(1, 1)
  /\ UNCHANGED <<produced, submitted, links, queue, active, inFlightPromises,
                 sunk, sunkBy, flushCount, progress, counts>>
  /\ UNCHANGED <<evalVars, retryVars, auxVars>>

\* A running evaluateLink(x) settles with status st: p-limit starts the next queued
\* task, trackPromise's finally removes the promise from inFlightPromises, and
\* queueBatch's then stores the result and marks the link resolved. A pending
\* Promise.race(inFlightPromises) settles with it; its continuation (OnFlush) runs
\* before any other task settles.
Complete(x, st) ==
  /\ x \in active
  /\ pc # "onFlush"
  /\ LET pool == PoolStart(queue, active \ {x}) IN
       /\ queue' = pool.queue
       /\ active' = pool.active
  /\ inFlightPromises' = inFlightPromises \ {x}
  /\ links' = MarkResolved(links, x, st)
  /\ pc' = IF pc = "race" THEN "onFlush" ELSE pc
  /\ UNCHANGED <<produced, submitted, pendingBatches, cur, pos, sunk, sunkBy,
                 flushCount, progress, counts, shellVars>>
  /\ UNCHANGED <<evalVars, retryVars, auxVars>>

\* waitForCapacity resumes after Promise.race and calls onFlush = flushCompleted.
OnFlush ==
  /\ pc = "onFlush"
  /\ RunFlush(pendingBatches, 1, links, queue, inFlightPromises)
  /\ UNCHANGED <<produced, submitted, links, queue, active, inFlightPromises,
                 flushCount, counts, shellVars>>
  /\ UNCHANGED <<evalVars, retryVars, auxVars>>

\* onResult (recordResult) returns inside flushCompleted: the counters are updated,
\* link.flushed = true, and the for-of loop goes on with the next link.
Recorded ==
  /\ pc = "onResult"
  /\ counts' = Recount(progress)
  /\ links' = MarkFlushed(links, cur)
  /\ flushCount' = [flushCount EXCEPT ![cur] = IF links'[cur].flushed THEN @ + 1 ELSE @]
  /\ RunFlush(pendingBatches, pos[2] + 1, links', queue, inFlightPromises)
  /\ UNCHANGED <<produced, submitted, queue, active, inFlightPromises, shellVars>>
  /\ UNCHANGED <<evalVars, retryVars, auxVars>>

\* flushAll: the awaited link.promise is settled, onResult is called with its result.
FlushAllPromise ==
  /\ pc = "flushAllPromise"
  /\ links[cur].resolved
  /\ pc' = "flushAllOnResult"
  /\ sunk' = Append(sunk, cur)
  /\ sunkBy' = Append(sunkBy, "flushAll")
  /\ progress' = AppendProgress(progress, cur, links)
  /\ UNCHANGED <<produced, submitted, pendingBatches, links, queue, active,
                 inFlightPromises, cur, pos, flushCount, counts, shellVars>>
  /\ UNCHANGED <<evalVars, retryVars, auxVars>>

\* flushAll: onResult returns; the loops go on with the next unflushed link, and
\* after the last one the queue is emptied.
FlushAllRecorded ==
  /\ pc = "flushAllOnResult"
  /\ counts' = Recount(progress)
  /\ RunFlushAll(pos[1], pos[2] + 1)
  /\ UNCHANGED <<produced, submitted, links, queue, active, inFlightPromises,
                 sunk, sunkBy, flushCount, progress>>
  /\ UNCHANGED <<evalVars, retryVars, auxVars>>

\* index.ts 150-154: the final write of the log ends, the output is written and the
\* summary printed.
Finalize ==
  /\ pc = "finalize"
  /\ pc' = "done"
  /\ UNCHANGED <<produced, submitted, pendingBatches, links, queue, active,
                 inFlightPromises, cur, pos, sunk, sunkBy, flushCount, progress, counts,
                 shellVars>>
  /\ UNCHANGED <<evalVars, retryVars, auxVars>>

Next ==
  \/ \E n \in 1..MaxLinks : ProducerYield(n)
  \/ ProducerDone
  \/ \E x \in Ids, st \in RunStatuses : Complete(x, st)
  \/ OnFlush
  \/ Recorded
  \/ FlushAllPromise
  \/ FlushAllRecorded
  \/ Finalize

Spec == Init /\ [][Next]_vars

\* The event loop runs every continuation that is ready, every evaluation in
\* progress settles, and the producer yields or ends.
FairSpec == Spec /\ WF_vars(Next)

\* ============================================================ evaluateLink

\* A JavaScript object is a function from its defined keys: {} is the function with
\* the empty domain, and a key that is absent reads as undefined.
EmptyObject == [k \in {} |-> 0]

Has(o, k) == k \in DOMAIN o

\* constants.ts MAX_RETRIES
MAX_RETRIES == 1

\* utils/retry.ts RETRYABLE_STATUS_CODES
RETRYABLE_STATUS_CODES == {429, 500, 502, 503}

\* An ArticleLink as the scraper leaves it: summary is absent or a text; the empty
\* string is falsy like undefined.
Links ==
  {[url |-> "u"], [url |-> "u", summary |-> ""], [url |-> "u", summary |-> "text"]}

\* config.models: screening is optional.
Configs ==
  {[models |-> [evaluation |-> "eval-model"]],
   [models |-> [evaluation |-> "eval-model", screening |-> "screen-model"]]}

\* response.choices[0].message.content of a model call, by what
\* parseBooleanJsonResponse reads of it: no content, blank text, text that is not
\* JSON, or a JSON object (bare or in a Markdown fence) whose boolean field is
\* true, false, of another type or missing, with or without a string reason and a
\* string analysis. Text that is not JSON is at most 200 characters long, or longer.
Contents ==
  {[kind |-> "undefined"], [kind |-> "blank"]}
  \cup {[kind |-> "invalid", long |-> g] : g \in BOOLEAN}
  \cup {[kind |-> "object", fenced |-> f] @@ v @@ r @@ a :
          f \in BOOLEAN,
          v \in {EmptyObject, [value |-> "true"], [value |-> "false"], [value |-> "yes"]},
          r \in {EmptyObject, [reason |-> "because"]},
          a \in {EmptyObject, [analysis |-> "step by step"]}}

\* `Invalid JSON: ${preview}`, the preview being the first 200 characters of the text.
InvalidJson(text) ==
  IF text.long THEN "Invalid JSON: first 200 characters" ELSE "Invalid JSON: whole text"

\* { status, reason, ...(analysis && { analysis }) }
ParseResult(status, reason, text) ==
  [status |-> status, reason |-> reason]
    @@ (IF Has(text, "analysis") /\ text.analysis # ""
        THEN [analysis |-> text.analysis] ELSE EmptyObject)

\* response.usage of a model call.
Usages ==
  {EmptyObject,
   [usage |-> EmptyObject],
   [usage |-> [prompt_tokens |-> 5]],
   [usage |-> [prompt_tokens |-> 5, completion_tokens |-> 2]]}

\* text repeated n times (String.prototype.repeat).
RECURSIVE Repeat(_, _)
Repeat(text, n) == IF n = 0 THEN "" ELSE text \o Repeat(text, n - 1)

\* The length above which failureReason cuts a message (articleFetcher.ts 27),
\* the only cut of a message in the repository.
ReasonLimit == 200

\* The message of an error that is very long: 1,000 characters.
LongMessage == Repeat("0123456789", 100)

\* What a model call can throw: an API error with an HTTP status, the client's
\* connection error, a system error with a code, any other Error. The last one
\* has a very long message.
Errors ==
  {[class |-> "APIError", status |-> 429, message |-> "429 Too Many Requests"],
   [class |-> "APIError", status |-> 400, message |-> "400 Bad Request"],
   [class |-> "APIConnectionError", message |-> "Connection error."],
   [class |-> "Error", code |-> "ECONNRESET", message |-> "socket hang up"],
   [class |-> "Error", message |-> "boom"],
   [class |-> "Error", message |-> LongMessage]}

\* articleFetcher.ts FetchResult, as fetchArticleText returns it.
FetchResults ==
  {[ok |-> TRUE, text |-> "article"],
   [ok |-> FALSE, reason |-> "HTTP 404"],
   [ok |-> FALSE, reason |-> "Timeout"],
   [ok |-> FALSE, reason |-> "Parse timeout"]}

\* Mutant of parseBooleanJsonResponse: text that is blank or not JSON counts as an
\* object without the field.
parseBooleanJsonResponse_FailsAsFalse(text, trueStatus, falseStatus) ==
  IF text.kind = "object" /\ Has(text, "value") /\ text.value = "true"
  THEN [status |-> trueStatus, reason |-> IF Has(text, "reason") THEN text.reason ELSE ""]
  ELSE [status |-> falseStatus, reason |-> IF Has(text, "reason") THEN text.reason ELSE ""]

\* evaluator: parseBooleanJsonResponse. Blank or missing text is an empty response;
\* the fence is stripped and the object cut out; text that JSON.parse rejects is
\* invalid; of a parsed object only value === true gives trueStatus, and reason is
\* the object's reason when it is a string, else ''.
parseBooleanJsonResponse(text, trueStatus, falseStatus) ==
  IF text.kind \in {"undefined", "blank"}
  THEN [status |-> "evaluation_failed", reason |-> "Empty response"]
  ELSE IF text.kind = "invalid"
  THEN [status |-> "evaluation_failed", reason |-> InvalidJson(text)]
  ELSE LET reason == IF Has(text, "reason") THEN text.reason ELSE "" IN
       IF Has(text, "value") /\ text.value = "true"
       THEN ParseResult(trueStatus, reason, text)
       ELSE ParseResult(falseStatus, reason, text)

parseSummaryResponse(text) == parseBooleanJsonResponse(text, "passed", "rejected")

parseStructuredResponse(text) == parseBooleanJsonResponse(text, "matched", "not_matched")

\* llmClient.ts 71-81: the parsed result, with tokens when the response reports a
\* usage holding a number.
evaluateWithInstructionsResult(result, response) ==
  IF /\ Has(response, "usage")
     /\ (Has(response.usage, "prompt_tokens") \/ Has(response.usage, "completion_tokens"))
  THEN result @@
       [tokens |->
         [input  |-> IF Has(response.usage, "prompt_tokens")
                     THEN response.usage.prompt_tokens ELSE 0,
          output |-> IF Has(response.usage, "completion_tokens")
                     THEN response.usage.completion_tokens ELSE 0]]
  ELSE result

\* Mutant of isRetryableApiError: only the HTTP status is looked at.
isRetryableApiError_StatusOnly(error) ==
  Has(error, "status") /\ error.status \in RETRYABLE_STATUS_CODES

\* llmClient.ts isRetryableApiError
isRetryableApiError(error) ==
  \/ error.class = "APIConnectionTimeoutError"
  \/ error.class = "APIConnectionError"
  \/ (Has(error, "code") /\ error.code \in {"ETIMEDOUT", "ECONNRESET"})
  \/ (Has(error, "status") /\ error.status \in RETRYABLE_STATUS_CODES)

\* withRetry's catch: the failed attempt is retried when attempts are left and the
\* error is retryable; otherwise the error is thrown.
RetryAfterError(n, error) == n < MAX_RETRIES /\ isRetryableApiError(error)

\* Mutant of RunsScreening: the test of config.models.screening is dropped.
RunsScreening_SummaryOnly(l, c) == Has(l, "summary") /\ l.summary # ""

\* linkPipeline.ts 12: stage 1 runs when the link has a summary and a screening
\* model is configured.
RunsScreening(l, c) ==
  /\ Has(l, "summary") /\ l.summary # ""
  /\ Has(c.models, "screening")

\* linkPipeline.ts 23: the screening result that ends the evaluation.
IsRejected(r) == r.status = "rejected"

\* Mutant of AddTokens: the usage of the call is not kept.
AddTokens_Drop(t, stage, r) == t

\* linkPipeline.ts 19-21, 51-53: if (result.tokens) tokens[stage] = result.tokens
AddTokens(t, stage, r) ==
  IF Has(r, "tokens")
  THEN (IF stage = "screening" THEN [screening |-> r.tokens] ELSE [evaluation |-> r.tokens]) @@ t
  ELSE t

\* Mutant of EvaluatedArticle: the tokens are never put on the result.
EvaluatedArticle_NoTokens(l, status, reason, t) == [status |-> status, reason |-> reason] @@ l

\* The EvaluatedArticle evaluateLink returns: the link, the status, the reason and,
\* when tokens has a key, the tokens.
EvaluatedArticle(l, status, reason, t) ==
  [status |-> status, reason |-> reason] @@ l
    @@ (IF DOMAIN t # {} THEN [tokens |-> t] ELSE EmptyObject)

\* Mutant of WithAnalysis: the analysis is not put on the result.
WithAnalysis_Drop(article, r) == article

\* linkPipeline.ts 59: ...(evaluateResult.analysis && { analysis })
WithAnalysis(article, r) ==
  article @@ (IF Has(r, "analysis") THEN [analysis |-> r.analysis] ELSE EmptyObject)

\* Mutant of CatchOutcome: the error is mapped to fetch_failed and its message lost.
CatchOutcome_FetchFailed(l, error, t) == EvaluatedArticle(l, "fetch_failed", "", t)

\* linkPipeline.ts 62-69: the catch of evaluateLink.
CatchOutcome(l, error, t) == EvaluatedArticle(l, "evaluation_failed", error.message, t)

InitEval ==
  /\ InitEngine
  /\ InitShell
  /\ InitRetryIdle
  /\ InitAuxIdle
  /\ evPc = "start"
  /\ link \in Links
  /\ config \in Configs
  /\ tokens = EmptyObject
  /\ attempt = 0
  /\ calls = <<>>
  /\ summaryResult = EmptyObject
  /\ fetchResult = EmptyObject
  /\ evaluateResult = EmptyObject
  /\ outcome = EmptyObject
  /\ events = <<>>

\* evaluateLink is entered (linkPipeline.ts 7-13, 34): the screening call is made,
\* or the fetch when stage 1 is skipped.
Enter ==
  /\ evPc = "start"
  /\ IF RunsScreening(link, config)
     THEN evPc' = "evaluateSummary" /\ calls' = <<"evaluateSummary">>
     ELSE evPc' = "fetchArticleText" /\ calls' = <<"fetchArticleText">>
  /\ UNCHANGED <<link, config, tokens, attempt, summaryResult, fetchResult,
                 evaluateResult, outcome, events>>
  /\ UNCHANGED <<engineVars, shellVars, retryVars, auxVars>>

\* The screening call returns a response (linkPipeline.ts 13-34).
SummaryReturns(content, usage) ==
  /\ evPc = "evaluateSummary"
  /\ LET r == evaluateWithInstructionsResult(parseSummaryResponse(content), usage)
         t == AddTokens(tokens, "screening", r)
     IN /\ summaryResult' = r
        /\ tokens' = t
        /\ attempt' = 0
        /\ events' = Append(events, [call |-> evPc, kind |-> "returned", content |-> content])
        /\ IF IsRejected(r)
           THEN /\ outcome' = EvaluatedArticle(link, "summary_rejected", r.reason, t)
                /\ evPc' = "done"
                /\ UNCHANGED calls
           ELSE /\ evPc' = "fetchArticleText"
                /\ calls' = Append(calls, "fetchArticleText")
                /\ UNCHANGED outcome
  /\ UNCHANGED <<link, config, fetchResult, evaluateResult>>
  /\ UNCHANGED <<engineVars, shellVars, retryVars, auxVars>>

\* A model call throws (llmClient.ts 57-68 in withRetry): it is made again after the
\* backoff, or the error reaches evaluateLink's catch (linkPipeline.ts 62-69).
CallThrows(error) ==
  /\ evPc \in {"evaluateSummary", "evaluateArticle"}
  /\ IF RetryAfterError(attempt, error)
     THEN /\ attempt' = attempt + 1
          /\ calls' = Append(calls, evPc)
          /\ UNCHANGED <<evPc, outcome>>
     ELSE /\ outcome' = CatchOutcome(link, error, tokens)
          /\ evPc' = "done"
          /\ UNCHANGED <<attempt, calls>>
  /\ events' = Append(events, [call |-> evPc, kind |-> "threw", error |-> error])
  /\ UNCHANGED <<link, config, tokens, summaryResult, fetchResult, evaluateResult>>
  /\ UNCHANGED <<engineVars, shellVars, retryVars, auxVars>>

\* fetchArticleText returns (linkPipeline.ts 34-49).
FetchReturns(fr) ==
  /\ evPc = "fetchArticleText"
  /\ fetchResult' = fr
  /\ IF ~fr.ok
     THEN /\ outcome' = EvaluatedArticle(link, "fetch_failed", fr.reason, tokens)
          /\ evPc' = "done"
          /\ UNCHANGED calls
     ELSE /\ evPc' = "evaluateArticle"
          /\ calls' = Append(calls, "evaluateArticle")
          /\ UNCHANGED outcome
  /\ UNCHANGED <<link, config, tokens, attempt, summaryResult, evaluateResult, events>>
  /\ UNCHANGED <<engineVars, shellVars, retryVars, auxVars>>

\* The evaluation call returns a response (linkPipeline.ts 45-61).
ArticleReturns(content, usage) ==
  /\ evPc = "evaluateArticle"
  /\ LET r == evaluateWithInstructionsResult(parseStructuredResponse(content), usage)
         t == AddTokens(tokens, "evaluation", r)
     IN /\ evaluateResult' = r
        /\ tokens' = t
        /\ outcome' = WithAnalysis(EvaluatedArticle(link, r.status, r.reason, t), r)
  /\ evPc' = "done"
  /\ events' = Append(events, [call |-> evPc, kind |-> "returned", content |-> content])
  /\ UNCHANGED <<link, config, attempt, calls, summaryResult, fetchResult>>
  /\ UNCHANGED <<engineVars, shellVars, retryVars, auxVars>>

NextEval ==
  \/ Enter
  \/ \E content \in Contents, usage \in Usages : SummaryReturns(content, usage)
  \/ \E error \in Errors : CallThrows(error)
  \/ \E fr \in FetchResults : FetchReturns(fr)
  \/ \E content \in Contents, usage \in Usages : ArticleReturns(content, usage)

SpecEval == InitEval /\ [][NextEval]_vars

\* ============================================================ withRetry

\* Largest retries option a caller passes.
MaxRetries == 5

\* constants.ts MAX_BACKOFF_MS
MAX_BACKOFF_MS == 5000

Min(a, b) == IF a < b THEN a ELSE b

\* The options withRetry is called with: by fetchWithRetry, which passes its two
\* predicates and the caller's retries (undefined when the caller gave none); by
\* evaluateWithInstructions, which passes isRetryableApiError only; and without
\* options.
CallerOptions ==
  {[caller |-> "fetchWithRetry"], [caller |-> "evaluateWithInstructions"],
   [caller |-> "none"]}
  \cup {[caller |-> "fetchWithRetry", retries |-> n] : n \in 0..MaxRetries}

\* const { retries = MAX_RETRIES } = options
Retries(o) == IF Has(o, "retries") THEN o.retries ELSE MAX_RETRIES

\* What fetch() resolves with.
Responses ==
  {[ok |-> TRUE, status |-> 200]}
  \cup {[ok |-> FALSE, status |-> st] : st \in {404, 429, 500, 501, 502, 503}}

\* What fetch() rejects with: the TypeError of a failed request, with the
\* messages of the browsers and of Node (whose cause carries the system error's
\* code), the DOMException of AbortSignal.timeout, a system error, another error.
FetchErrors ==
  {[class |-> "TypeError", message |-> "Failed to fetch"],
   [class |-> "TypeError", message |-> "A network error occurred."],
   [class |-> "TypeError", message |-> "NetworkError when attempting to fetch resource."],
   [class |-> "TypeError", message |-> "fetch failed", cause |-> "ECONNRESET"],
   [class |-> "TypeError", message |-> "fetch failed", cause |-> "UND_ERR_CONNECT_TIMEOUT"],
   [class |-> "DOMException", name |-> "TimeoutError",
    message |-> "The operation was aborted due to timeout"],
   [class |-> "Error", code |-> "ECONNRESET", message |-> "read ECONNRESET"],
   [class |-> "TypeError", message |-> "Invalid URL"]}

\* What client.chat.completions.create rejects with.
ApiErrors ==
  Errors
  \cup {[class |-> "APIConnectionTimeoutError", message |-> "Request timed out."],
        [class |-> "APIConnectionError", message |-> "Connection error.", cause |-> "ECONNREFUSED"],
        [class |-> "Error", code |-> "ETIMEDOUT", message |-> "connect ETIMEDOUT"],
        [class |-> "APIError", status |-> 500, message |-> "500 Internal Server Error"],
        [class |-> "APIError", status |-> 502, message |-> "502 Bad Gateway"],
        [class |-> "APIError", status |-> 503, message |-> "503 Service Unavailable"],
        [class |-> "APIError", status |-> 504, message |-> "504 Gateway Timeout"],
        [class |-> "APIError", status |-> 401, message |-> "401 Unauthorized"]}

FnResults(o) ==
  IF o.caller = "fetchWithRetry" THEN Responses ELSE {[ok |-> TRUE, status |-> 200]}

FnErrors(o) == IF o.caller = "fetchWithRetry" THEN FetchErrors ELSE ApiErrors

\* error.message.includes('network'), over the messages above.
IncludesNetwork(message) == message \in {"A network error occurred."}

\* utils/retry.ts isRetryableResponse
isRetryableResponse(response) == response.status \in RETRYABLE_STATUS_CODES

\* utils/retry.ts isRetryableError
isRetryableError(error) ==
  /\ error.class = "TypeError"
  /\ (error.message = "Failed to fetch" \/ IncludesNetwork(error.message))

\* shouldRetry?.(result)
ShouldRetry(o, result) ==
  /\ o.caller = "fetchWithRetry"
  /\ ~result.ok /\ isRetryableResponse(result)

\* isRetryableError?.(error)
IsRetryableError(o, error) ==
  IF o.caller = "fetchWithRetry" THEN isRetryableError(error)
  ELSE IF o.caller = "evaluateWithInstructions" THEN isRetryableApiError(error)
  ELSE FALSE

\* Mutant of BackoffMs: the cap is not applied.
BackoffMs_Uncapped(a) == 1000 * 2^a

\* Math.min(1000 * 2 ** attempt, MAX_BACKOFF_MS)
BackoffMs(a) == Min(1000 * 2^a, MAX_BACKOFF_MS)

\* Mutant of CanRetry: no attempt is ever followed by another one.
CanRetry_Never(a, o) == FALSE

\* attempt < retries
CanRetry(a, o) == a < Retries(o)

\* Mutant of Settle: the first error is thrown whatever the last attempt gave.
Settle_Exhausted(ended) ==
  [how |-> "thrown", value |-> [kind |-> "error", value |-> "Retries exhausted", at |-> 0]]

\* return result / throw error: withRetry settles with the attempt's own ended.
Settle(ended) ==
  [how |-> IF ended.kind = "error" THEN "thrown" ELSE "returned", value |-> ended]

InitRetry ==
  /\ InitEngine
  /\ InitShell
  /\ InitEvalIdle
  /\ InitAuxIdle
  /\ wrPc = "start"
  /\ options \in CallerOptions
  /\ fnCalls = 0
  /\ delays = <<>>
  /\ lastError = EmptyObject
  /\ fnOutcome = EmptyObject
  /\ settled = EmptyObject

evalLocals ==
  <<evPc, link, config, tokens, calls, summaryResult, fetchResult, evaluateResult,
    outcome, events>>

\* withRetry is entered: attempt = 0 passes the loop test and fn() is called.
WithRetry ==
  /\ wrPc = "start"
  /\ 0 <= Retries(options)
  /\ attempt' = 0
  /\ fnCalls' = fnCalls + 1
  /\ wrPc' = "fn"
  /\ UNCHANGED <<options, delays, lastError, fnOutcome, settled>>
  /\ UNCHANGED <<engineVars, shellVars, evalLocals, auxVars>>

\* fn() fulfils (part_015 51-61): the result is retried after a delay, or returned.
FnReturns(result) ==
  /\ wrPc = "fn"
  /\ LET ended == [kind |-> "result", value |-> result, at |-> attempt] IN
       /\ fnOutcome' = ended
       /\ IF ShouldRetry(options, result) /\ CanRetry(attempt, options)
          THEN /\ delays' = Append(delays, BackoffMs(attempt))
               /\ wrPc' = "delay"
               /\ UNCHANGED settled
          ELSE /\ settled' = Settle(ended)
               /\ wrPc' = "returned"
               /\ UNCHANGED delays
  /\ UNCHANGED <<attempt, options, fnCalls, lastError>>
  /\ UNCHANGED <<engineVars, shellVars, evalLocals, auxVars>>

\* fn() rejects (part_015 62-74): the error is kept as lastError, and the attempt is
\* retried after a delay, or the error thrown.
FnThrows(error) ==
  /\ wrPc = "fn"
  /\ LET ended == [kind |-> "error", value |-> error, at |-> attempt] IN
       /\ fnOutcome' = ended
       /\ lastError' = ended
       /\ IF CanRetry(attempt, options) /\ IsRetryableError(options, error)
          THEN /\ delays' = Append(delays, BackoffMs(attempt))
               /\ wrPc' = "delay"
               /\ UNCHANGED settled
          ELSE /\ settled' = Settle(ended)
               /\ wrPc' = "thrown"
               /\ UNCHANGED delays
  /\ UNCHANGED <<attempt, options, fnCalls>>
  /\ UNCHANGED <<engineVars, shellVars, evalLocals, auxVars>>

\* delay(backoffMs) is over (part_015 56-58, 68-70, 49): continue, attempt++, and
\* fn() is called again. The loop test attempt <= retries passes, since a delay is
\* only slept when attempt < retries.
DelayElapses ==
  /\ wrPc = "delay"
  /\ attempt + 1 <= Retries(options)
  /\ attempt' = attempt + 1
  /\ fnCalls' = fnCalls + 1
  /\ wrPc' = "fn"
  /\ UNCHANGED <<options, delays, lastError, fnOutcome, settled>>
  /\ UNCHANGED <<engineVars, shellVars, evalLocals, auxVars>>

NextRetry ==
  \/ WithRetry
  \/ \E result \in FnResults(options) : FnReturns(result)
  \/ \E error \in FnErrors(options) : FnThrows(error)
  \/ DelayElapses

SpecRetry == InitRetry /\ [][NextRetry]_vars

\* ============================================================ claims, Spec

Count(s, x) == Cardinality({k \in 1..Len(s) : s[k] = x})

\* Number of links submitted in the batches before batch b.
Offset(b) == Len(Flatten(SubSeq(submitted, 1, b - 1)))

\* The caller (flushCompleted or flushAll) that passed x to the sink.
DeliveredBy(x) == sunkBy[IndexIn(sunk, x)]

\* The links of x's batch that come before x in it.
EarlierSiblings(x) ==
  LET batch == submitted[BatchOf(x)] IN
    {batch[k] : k \in 1..(IndexIn(batch, x) - 1)}

RunOver == pc \in {"finalize", "done"}

\* C1 as stated: at the end of a run the outcomes were passed to the sink in
\* submission order exactly, batch by batch and in item order within each batch.
C1_SubmissionOrder == pc = "done" => sunk = Flatten(submitted)

\* C1 as amended: at the end of a run the sink has received the batches in
\* submission order, each batch as one contiguous block holding exactly its links;
\* inside a block the links come in the order the drains found them resolved.
C1_BatchOrder ==
  pc = "done" =>
    /\ Len(sunk) = Len(Flatten(submitted))
    /\ \A b \in 1..Len(submitted) :
         {sunk[k] : k \in (Offset(b) + 1)..(Offset(b) + Len(submitted[b]))}
           = Range(submitted[b])

\* A finished run of two or more batches whose sink order is not the submission order.
C1_Witness == pc = "done" /\ Len(submitted) >= 2 /\ sunk # Flatten(submitted)

\* C2 as stated: while flushCompleted passes a link to the sink, every
\* earlier-indexed link of the same batch has already been flushed.
C2_HeldBack == pc = "onResult" => \A y \in EarlierSiblings(cur) : links[y].flushed

\* C2 as amended: flushCompleted passes a link to the sink only if it is in the head
\* batch, resolved and not yet flushed, and one pass visits the head batch in
\* increasing index order; a link that resolved before an earlier sibling is not
\* held back.
C2_Eligible ==
  [][(pc' = "onResult" /\ sunk' # sunk) =>
       /\ cur' \in Range(Head(pendingBatches'))
       /\ links'[cur'].resolved /\ ~links'[cur'].flushed
       /\ sunk' = Append(sunk, cur')
       /\ (pc = "onResult" /\ pendingBatches' = pendingBatches => pos'[2] > pos[2])]_vars

\* One batch of three links; link 2 resolved first and is being passed to the sink
\* while links 1 and 3 are still unresolved.
C2_Witness ==
  /\ pc = "onResult" /\ cur = 2
  /\ Len(submitted) >= 1 /\ submitted[1] = <<1, 2, 3>>
  /\ ~links[1].resolved /\ ~links[3].resolved

\* C3: no link is ever passed to the sink twice, and once flushAll has returned
\* every scheduled link has been passed to it exactly once.
C3_ExactlyOnce ==
  /\ \A x \in Ids : Count(sunk, x) <= 1
  /\ Range(sunk) \subseteq Scheduled
  /\ RunOver => \A x \in Scheduled : Count(sunk, x) = 1

\* A finished run in which both flushCompleted and flushAll delivered links.
C3_Witness ==
  pc = "done" /\ "flushCompleted" \in Range(sunkBy) /\ "flushAll" \in Range(sunkBy)

\* C4 as stated: after flushAll has returned every submitted link has flushed = true,
\* set exactly once.
C4_AllFlushed ==
  RunOver => \A x \in Scheduled : links[x].flushed /\ flushCount[x] = 1

\* C4 as amended: no link's flushed flag is set twice; after flushAll has returned
\* the queue is empty, every submitted link has been passed to the sink, and
\* flushed = true (set once) holds exactly of the links flushCompleted delivered:
\* the links flushAll delivered keep flushed = false.
C4_FlushedByFlushCompleted ==
  /\ \A x \in Ids : flushCount[x] <= 1 /\ (links[x].flushed <=> flushCount[x] = 1)
  /\ RunOver =>
       /\ pendingBatches = <<>>
       /\ \A x \in Scheduled :
            /\ x \in Range(sunk)
            /\ links[x].flushed <=> DeliveredBy(x) = "flushCompleted"

\* flushAll has returned; it delivered a link, whose flag is still false, and
\* flushCompleted had delivered another.
C4_Witness ==
  /\ RunOver
  /\ \E x, y \in Scheduled : ~links[x].flushed /\ links[y].flushed

\* C5: the number of evaluations executing at once never exceeds concurrentLimit,
\* over the links of all batches together.
C5_ConcurrencyBound ==
  /\ Cardinality(active) <= concurrentLimit
  /\ active \cap Range(queue) = {}

\* The pool is full with links of two different batches and more are queued.
C5_Witness ==
  /\ Cardinality(active) = concurrentLimit
  /\ queue # <<>>
  /\ \E a, b \in active : BatchOf(a) # BatchOf(b)

\* No link of a later batch has been passed to the sink before every link of every
\* earlier batch.
BatchesInOrder ==
  \A p \in 1..Len(sunk) : \A y \in Scheduled :
    BatchOf(y) < BatchOf(sunk[p]) => \E o \in 1..(p - 1) : sunk[o] = y

\* The batches of pendingBatches that the step removes.
Removed == Range(pendingBatches) \ Range(pendingBatches')

\* C6 as stated: batches reach the sink in submission order, and a batch leaves the
\* pending queue only when every one of its links has flushed = true.
C6_RemovedOnlyWhenFlushed ==
  /\ []BatchesInOrder
  /\ [][\A batch \in Removed : \A k \in 1..Len(batch) : links'[batch[k]].flushed]_vars

\* C6 as amended: batches reach the sink in submission order; flushCompleted removes
\* a batch only when every one of its links has flushed = true, and flushAll empties
\* the queue only when every link left in it has been passed to the sink and
\* recorded, without setting flushed.
C6_RemovedOnlyWhenDelivered ==
  /\ []BatchesInOrder
  /\ [][\A batch \in Removed : \A k \in 1..Len(batch) :
          /\ batch[k] \in Range(sunk)
          /\ progress[batch[k]] # None
          /\ (pc # "flushAllOnResult" => links'[batch[k]].flushed)]_vars

\* flushAll is emptying a queue of two batches, the first of which flushCompleted
\* had begun to flush.
C6_Witness ==
  /\ pc = "flushAllOnResult"
  /\ Len(pendingBatches) = 2
  /\ \E k \in 1..Len(pendingBatches[1]) : links[pendingBatches[1][k]].flushed
  /\ FlushAllNext(pendingBatches, pos[1], pos[2] + 1, links) = <<0, 0>>


\* C13: whatever outcomes the evaluations have, failures included, the run reaches
\* its end with every scheduled link delivered to the sink once and recorded with
\* its own status.
C13_FailureIsolated ==
  <>(/\ pc = "done"
     /\ \A y \in Scheduled :
          /\ Count(sunk, y) = 1
          /\ links[y].resolved
          /\ progress[y] = links[y].result
          /\ progress[y] \in RunStatuses)

C13_Witness ==
  /\ pc = "done"
  /\ \E x, y \in Scheduled :
       /\ BatchOf(x) = BatchOf(y)
       /\ x < y
       /\ progress[x] = "evaluation_failed"
       /\ progress[y] = "matched"
       /\ IndexIn(sunk, x) < IndexIn(sunk, y)
  /\ Len(submitted) >= 2

\* ============================================================ claims, SpecEval

Made(call) == call \in Range(calls)

StatusIs(r, st) == Has(r, "status") /\ r.status = st

\* C7, as the claim states it: once the screening call has returned an empty or
\* unparseable response, evaluateLink has ended with status evaluation_failed and has
\* made neither the fetch nor the evaluation call.
C7_FailedScreeningEnds ==
  StatusIs(summaryResult, "evaluation_failed")
    => /\ evPc = "done"
       /\ StatusIs(outcome, "evaluation_failed")
       /\ ~Made("fetchArticleText")
       /\ ~Made("evaluateArticle")

\* C8: once the screening call has returned "not relevant", evaluateLink has ended:
\* the outcome is summary_rejected with the screening result's reason, its tokens
\* are exactly the screening call's usage (none when the response reported none),
\* and neither the fetch nor the evaluation call has been made.
C8_RejectedShortCircuits ==
  StatusIs(summaryResult, "rejected")
    => /\ evPc = "done"
       /\ StatusIs(outcome, "summary_rejected")
       /\ outcome.reason = summaryResult.reason
       /\ ~Made("fetchArticleText")
       /\ ~Made("evaluateArticle")
       /\ Has(outcome, "tokens") <=> Has(summaryResult, "tokens")
       /\ Has(summaryResult, "tokens")
            => outcome.tokens = [screening |-> summaryResult.tokens]

C8_Witness ==
  /\ StatusIs(summaryResult, "rejected")
  /\ evPc = "done"
  /\ outcome.reason = "because"
  /\ Has(outcome, "tokens")
  /\ outcome.tokens.screening = [input |-> 5, output |-> 2]

\* C9: when the link has no summary or no screening model is configured, no
\* screening call is ever made, the first call is the fetch and the outcome is never
\* summary_rejected; and whenever the outcome is summary_rejected, the screening call
\* was made and returned.
C9_ScreeningOnlyWhenEnabled ==
  /\ (~Has(link, "summary") \/ link.summary = "" \/ ~Has(config.models, "screening"))
       => /\ ~Made("evaluateSummary")
          /\ summaryResult = EmptyObject
          /\ evPc # "start" => calls[1] = "fetchArticleText"
          /\ ~StatusIs(outcome, "summary_rejected")
  /\ StatusIs(outcome, "summary_rejected")
       => /\ Made("evaluateSummary")
          /\ StatusIs(summaryResult, "rejected")

C9_Witness ==
  /\ Has(link, "summary") /\ link.summary = "text"
  /\ ~Has(config.models, "screening")
  /\ evPc = "done"
  /\ calls = <<"fetchArticleText", "evaluateArticle">>
  /\ StatusIs(outcome, "matched")

\* C10: once the fetch has returned {ok: false, reason}, evaluateLink has ended: the
\* outcome is fetch_failed with exactly that reason, no evaluation call has been
\* made, and the outcome's tokens are the screening call's usage when it reported one.
C10_FetchFailureEnds ==
  (Has(fetchResult, "ok") /\ ~fetchResult.ok)
    => /\ evPc = "done"
       /\ StatusIs(outcome, "fetch_failed")
       /\ outcome.reason = fetchResult.reason
       /\ ~Made("evaluateArticle")
       /\ Has(outcome, "tokens") <=> Has(summaryResult, "tokens")
       /\ Has(summaryResult, "tokens")
            => outcome.tokens = [screening |-> summaryResult.tokens]

C10_Witness ==
  /\ Has(fetchResult, "ok") /\ ~fetchResult.ok
  /\ fetchResult.reason = "HTTP 404"
  /\ evPc = "done"
  /\ outcome.reason = "HTTP 404"
  /\ Has(outcome, "tokens")
  /\ Made("evaluateSummary")


\* The events of the model calls of one stage that returned a response.
Returned(call) ==
  {k \in 1..Len(events) : events[k].call = call /\ events[k].kind = "returned"}

\* The result evaluateLink holds for a stage.
StageResult(call) == IF call = "evaluateSummary" THEN summaryResult ELSE evaluateResult

\* The outcome's tokens are exactly the usages the two stages reported.
TokensOfBothStages ==
  /\ Has(outcome, "tokens") <=> (Has(summaryResult, "tokens") \/ Has(evaluateResult, "tokens"))
  /\ Has(outcome, "tokens") =>
       /\ Has(outcome.tokens, "screening") <=> Has(summaryResult, "tokens")
       /\ Has(outcome.tokens, "evaluation") <=> Has(evaluateResult, "tokens")
       /\ Has(summaryResult, "tokens") => outcome.tokens.screening = summaryResult.tokens
       /\ Has(evaluateResult, "tokens") => outcome.tokens.evaluation = evaluateResult.tokens

\* C11: once the evaluation call has returned an object whose satisfies_criteria is
\* a boolean, evaluateLink has ended with matched when it is true and not_matched
\* when it is false; the outcome carries the response's reason and analysis, and its
\* tokens are the screening usage (when stage 1 ran and reported one) and the
\* evaluation usage.
C11_Stage2Decision ==
  \A k \in Returned("evaluateArticle") :
    LET content == events[k].content IN
      (content.kind = "object" /\ Has(content, "value") /\ content.value \in {"true", "false"})
        => /\ evPc = "done"
           /\ StatusIs(outcome, IF content.value = "true" THEN "matched" ELSE "not_matched")
           /\ outcome.reason = (IF Has(content, "reason") THEN content.reason ELSE "")
           /\ Has(outcome, "analysis") <=> Has(content, "analysis")
           /\ Has(content, "analysis") => outcome.analysis = content.analysis
           /\ TokensOfBothStages

C11_Witness ==
  /\ evPc = "done"
  /\ StatusIs(outcome, "not_matched")
  /\ StatusIs(summaryResult, "passed")
  /\ Has(outcome, "analysis") /\ outcome.analysis = "step by step"
  /\ outcome.reason = "because"
  /\ Has(outcome, "tokens")
  /\ DOMAIN outcome.tokens = {"screening", "evaluation"}

\* C12: evaluateLink always ends with an outcome whose status is one of the five
\* terminal statuses; an error thrown by a model call is either retried by withRetry
\* or caught, and when it is caught the outcome is evaluation_failed with the
\* error's message and the tokens accumulated before the throw.
C12_NeverRejects ==
  /\ evPc \in {"start", "evaluateSummary", "fetchArticleText", "evaluateArticle", "done"}
  /\ evPc = "done" => (Has(outcome, "status") /\ outcome.status \in EVALUATED_STATUS)
  /\ (events # <<>> /\ events[Len(events)].kind = "threw") =>
       LET last == events[Len(events)] IN
         IF evPc = "done"
         THEN /\ StatusIs(outcome, "evaluation_failed")
              /\ outcome.reason = last.error.message
              /\ evaluateResult = EmptyObject
              /\ TokensOfBothStages
         ELSE evPc = last.call

C12_Witness ==
  /\ evPc = "done"
  /\ Len(events) = 3
  /\ events[1].kind = "returned" /\ events[2].kind = "threw" /\ events[3].kind = "threw"
  /\ events[3].error.class = "APIConnectionError"
  /\ outcome.reason = "Connection error."
  /\ Has(outcome, "tokens")

\* C14, as the claim states it: a returned object without the boolean field, or with
\* a value in it that is not a boolean, gives the stage the result evaluation_failed.
C14_MissingFieldFails ==
  \A call \in {"evaluateSummary", "evaluateArticle"} : \A k \in Returned(call) :
    LET content == events[k].content IN
      (content.kind = "object" /\ (~Has(content, "value") \/ content.value = "yes"))
        => StatusIs(StageResult(call), "evaluation_failed")

\* C15: once a model call has returned content that is missing, blank or not JSON,
\* no further call of that stage is made (the stage's calls are its throws plus
\* this one), the stage's result is evaluation_failed with the reason
\* 'Empty response' or 'Invalid JSON: ' and the first 200 characters of the text,
\* and for stage 2 that is the outcome.
C15_ParseFailureNotRetried ==
  \A call \in {"evaluateSummary", "evaluateArticle"} : \A k \in Returned(call) :
    LET content == events[k].content
        thrown  == {j \in 1..Len(events) : events[j].call = call /\ events[j].kind = "threw"}
    IN content.kind \in {"undefined", "blank", "invalid"}
         => /\ Count(calls, call) = Cardinality(thrown) + 1
            /\ \A j \in thrown : j < k
            /\ evPc # call
            /\ StatusIs(StageResult(call), "evaluation_failed")
            /\ StageResult(call).reason =
                 (IF content.kind # "invalid" THEN "Empty response"
                  ELSE IF content.long THEN "Invalid JSON: first 200 characters"
                  ELSE "Invalid JSON: whole text")
            /\ call = "evaluateArticle" =>
                 /\ evPc = "done"
                 /\ StatusIs(outcome, "evaluation_failed")
                 /\ outcome.reason = evaluateResult.reason

C15_Witness ==
  /\ evPc = "done"
  /\ calls = <<"fetchArticleText", "evaluateArticle">>
  /\ events = <<[call |-> "evaluateArticle", kind |-> "returned",
                 content |-> [kind |-> "invalid", long |-> TRUE]]>>
  /\ outcome.reason = "Invalid JSON: first 200 characters"


\* ============================================================ claims, SpecRetry

Settled == wrPc \in {"returned", "thrown"}

\* The latest attempt ended in a failure that the caller's predicates call
\* retryable.
RetryableFailure ==
  /\ fnOutcome # EmptyObject
  /\ IF fnOutcome.kind = "error" THEN IsRetryableError(options, fnOutcome.value)
     ELSE ShouldRetry(options, fnOutcome.value)

\* C16: fn is invoked at most retries + 1 times, once per attempt; when withRetry
\* has settled after a retryable failure, fn was invoked exactly retries + 1 times
\* and the failure is what withRetry gave; an attempt that succeeds or fails with
\* something not retryable settles withRetry at once, so an operation whose first
\* attempt does so is invoked exactly once.
C16_AtMostRetriesPlusOne ==
  /\ fnCalls <= Retries(options) + 1
  /\ wrPc # "start" => fnCalls = attempt + 1
  /\ (Settled /\ RetryableFailure) =>
       /\ fnCalls = Retries(options) + 1
       /\ settled.value = fnOutcome
       /\ fnOutcome.kind = "result" => ~settled.value.value.ok
  /\ (fnOutcome # EmptyObject /\ fnOutcome.at = attempt /\ ~RetryableFailure) =>
       /\ Settled
       /\ fnCalls = fnOutcome.at + 1
  /\ wrPc = "delay" => (RetryableFailure /\ fnOutcome.at = attempt)

C16_Witness ==
  /\ wrPc = "thrown"
  /\ Has(options, "retries") /\ options.retries = 3
  /\ fnCalls = 4
  /\ RetryableFailure

\* The delay the code's formula gives after attempt a, written out.
ExpectedDelay(a) == IF 1000 * 2^a <= MAX_BACKOFF_MS THEN 1000 * 2^a ELSE MAX_BACKOFF_MS

\* C17: the i-th delay slept is min(1000 * 2^(i-1), MAX_BACKOFF_MS); the delays never
\* decrease, and are MAX_BACKOFF_MS from the first capped one on; there is one delay
\* per attempt that was followed by another one, each after a retryable failure of
\* an attempt below retries, and none after the attempt that settled withRetry.
C17_BackoffDelays ==
  /\ \A i \in 1..Len(delays) : delays[i] = ExpectedDelay(i - 1)
  /\ \A i, j \in 1..Len(delays) :
       i < j => /\ delays[i] <= delays[j]
                /\ delays[i] = MAX_BACKOFF_MS => delays[j] = MAX_BACKOFF_MS
  /\ Len(delays) <= Retries(options)
  /\ Len(delays) = IF wrPc = "delay" THEN attempt + 1 ELSE attempt
  /\ wrPc = "delay" => (RetryableFailure /\ attempt < Retries(options))
  /\ Settled => Len(delays) = fnCalls - 1

C17_Witness ==
  /\ Settled
  /\ delays = <<1000, 2000, 4000, 5000, 5000>>

\* C18: when withRetry has settled, it has thrown the error of the last attempt if
\* that attempt threw, and returned the result of the last attempt if it returned;
\* after the last allowed attempt that is so even for a retryable failure.
C18_SurfacesLastOutcome ==
  Settled =>
    /\ settled.value = fnOutcome
    /\ settled.value.at = attempt
    /\ settled.how = (IF fnOutcome.kind = "error" THEN "thrown" ELSE "returned")
    /\ wrPc = settled.how
    /\ fnOutcome.kind = "error" => lastError = fnOutcome

C18_Witness ==
  /\ wrPc = "returned"
  /\ options = [caller |-> "fetchWithRetry", retries |-> 2]
  /\ fnCalls = 3
  /\ lastError # EmptyObject /\ lastError.at = 1
  /\ settled.value.value = [ok |-> FALSE, status |-> 503]
  /\ settled.value.at = 2

\* A transient network error of fetch(): a connection reset, a connection timeout,
\* or the generic failed-to-fetch / network error.
TransientNetworkError(error) ==
  \/ (Has(error, "code") /\ error.code \in {"ECONNRESET", "ETIMEDOUT"})
  \/ (Has(error, "cause") /\ error.cause \in {"ECONNRESET", "UND_ERR_CONNECT_TIMEOUT"})
  \/ (Has(error, "name") /\ error.name = "TimeoutError")
  \/ (error.class = "TypeError" /\ error.message \in
        {"Failed to fetch", "A network error occurred.",
         "NetworkError when attempting to fetch resource."})

\* C19, as the claim states it: an attempt of fetchWithRetry that has attempts left
\* is followed by another one if and only if it ended in a response with status 429,
\* 500, 502 or 503 or in a transient network error.
C19_FetchRetriedIff ==
  (/\ options # EmptyObject /\ options.caller = "fetchWithRetry"
   /\ fnOutcome # EmptyObject /\ fnOutcome.at = attempt
   /\ attempt < Retries(options))
    => (wrPc = "delay" <=>
          IF fnOutcome.kind = "result"
          THEN fnOutcome.value.status \in {429, 500, 502, 503}
          ELSE TransientNetworkError(fnOutcome.value))

\* C20: an attempt of the model call that threw and has attempts left is followed
\* by another one if and only if the error is HTTP 429/500/502/503, a connection
\* timeout or a connection error; any other error is thrown at once, with no delay
\* slept after it, so that a first attempt failing with it is the only one.
C20_ApiRetriedIff ==
  (/\ options # EmptyObject /\ options.caller = "evaluateWithInstructions"
   /\ fnOutcome # EmptyObject /\ fnOutcome.at = attempt /\ fnOutcome.kind = "error")
    => LET error == fnOutcome.value
           retryable ==
             \/ (Has(error, "status") /\ error.status \in {429, 500, 502, 503})
             \/ error.class \in {"APIConnectionTimeoutError", "APIConnectionError"}
             \/ (Has(error, "code") /\ error.code \in {"ETIMEDOUT", "ECONNRESET"})
       IN /\ attempt < MAX_RETRIES => (wrPc = "delay" <=> retryable)
          /\ ~retryable =>
               /\ wrPc = "thrown"
               /\ settled.value.value = error
               /\ Len(delays) = attempt
               /\ attempt = 0 => (fnCalls = 1 /\ delays = <<>>)

C20_Witness ==
  /\ options # EmptyObject /\ options.caller = "evaluateWithInstructions"
  /\ wrPc = "thrown"
  /\ fnCalls = 1
  /\ delays = <<>>
  /\ settled.value.value.message = "401 Unauthorized"

\* ============================================================ retry budgets

\* Number of links that are evaluated at the same time in SpecBudget.
MaxItems == 2

\* The retried calls of one evaluateLink call, in the order it makes them
\* (linkPipeline.ts 13, 34, 45); each of them runs its own withRetry loop.
RetriedCalls == <<"evaluateSummary", "fetchArticleText", "evaluateArticle">>

\* The options withRetry gets from each of them: no caller passes retries.
CallOptions(call) ==
  IF RetriedCalls[call] = "fetchArticleText"
  THEN [caller |-> "fetchWithRetry"]
  ELSE [caller |-> "evaluateWithInstructions"]

\* Mutant of AttemptOf: one attempt counter is shared by every running call.
AttemptOf_Shared(its, i) ==
  LET RECURSIVE Sum(_)
      Sum(n) == IF n = 0 THEN 0 ELSE its[n].attempt + Sum(n - 1)
  IN Sum(Len(its))

\* for (let attempt = 0; ...): the loop variable of the call item i is in.
AttemptOf(its, i) == its[i].attempt

\* withRetry is entered for the call with index call: attempt = 0, fn() is called.
EnterCall(it, call) ==
  [it EXCEPT !.call = call, !.attempt = 0, !.waiting = FALSE,
             !.made = [@ EXCEPT ![call] = @ + 1]]

InitBudget ==
  /\ InitEngine
  /\ InitShell
  /\ InitEvalIdle
  /\ InitRetryIdle
  /\ InitLogIdle
  /\ InitFlushIdle
  /\ InitMoreIdle
  /\ items = [i \in 1..MaxItems |->
                [call |-> 0, attempt |-> 0, waiting |-> FALSE,
                 made |-> <<0, 0, 0>>, ended |-> ""]]

budgetRest ==
  <<engineVars, shellVars, evalVars, retryVars, logVars, flushVars, moreVars>>

\* evaluateLink(i) starts (linkPipeline.ts 7-13, 34): its first retried call is
\* evaluateSummary when stage 1 runs, fetchArticleText otherwise.
BeginItem(i, screening) ==
  /\ items[i].call = 0
  /\ items' = [items EXCEPT ![i] = EnterCall(@, IF screening THEN 1 ELSE 2)]
  /\ UNCHANGED budgetRest

\* The attempt in progress fails. A retryable failure with attempts left is
\* followed by the backoff delay (part_015 53-59, 65-71); any other failure ends
\* the call, and with it the evaluation of the item (linkPipeline.ts 36-43, 62-69).
AttemptFails(i, retryable) ==
  /\ items[i].call \in 1..3 /\ items[i].ended = "" /\ ~items[i].waiting
  /\ items' =
       IF retryable /\ CanRetry(AttemptOf(items, i), CallOptions(items[i].call))
       THEN [items EXCEPT ![i].waiting = TRUE]
       ELSE [items EXCEPT ![i].ended = IF retryable THEN "exhausted" ELSE "failed"]
  /\ UNCHANGED budgetRest

\* The delay is over: attempt++ and fn() is called again (part_015 49-51).
BackoffOver(i) ==
  /\ items[i].waiting
  /\ items' = [items EXCEPT ![i].waiting = FALSE,
                            ![i].attempt = @ + 1,
                            ![i].made = [@ EXCEPT ![items[i].call] = @ + 1]]
  /\ UNCHANGED budgetRest

\* The attempt in progress succeeds: the call returns, and evaluateLink either
\* returns its outcome or goes on to its next retried call.
AttemptSucceeds(i, goesOn) ==
  /\ items[i].call \in 1..3 /\ items[i].ended = "" /\ ~items[i].waiting
  /\ items' =
       IF goesOn /\ items[i].call < 3
       THEN [items EXCEPT ![i] = EnterCall(@, items[i].call + 1)]
       ELSE [items EXCEPT ![i].ended = "returned"]
  /\ UNCHANGED budgetRest

NextBudget ==
  \/ \E i \in 1..MaxItems, screening \in BOOLEAN : BeginItem(i, screening)
  \/ \E i \in 1..MaxItems, retryable \in BOOLEAN : AttemptFails(i, retryable)
  \/ \E i \in 1..MaxItems : BackoffOver(i)
  \/ \E i \in 1..MaxItems, goesOn \in BOOLEAN : AttemptSucceeds(i, goesOn)

SpecBudget == InitBudget /\ [][NextBudget]_vars

\* ------------------------------------------------------------ SpecBudget claims

\* C21: every retried call starts with an attempt counter of its own. The attempts
\* a call makes are one more than its own counter, whatever the earlier calls of
\* the item or the calls of the other items have used; an evaluation makes at most
\* retries + 1 attempts of each of its three calls, and a call that fails
\* retryably to the end has made exactly retries + 1 of them.
C21_OwnBudget ==
  \A i \in 1..MaxItems :
    /\ \A call \in 1..3 : items[i].made[call] <= MAX_RETRIES + 1
    /\ items[i].call \in 1..3 =>
         /\ items[i].made[items[i].call] = items[i].attempt + 1
         /\ items[i].ended = "exhausted" =>
              items[i].made[items[i].call] = Retries(CallOptions(items[i].call)) + 1

C21_Witness ==
  /\ items[1].ended = "exhausted"
  /\ items[1].made = <<2, 2, 2>>
  /\ items[2].ended = ""
  /\ items[2].made = <<2, 1, 0>>
  /\ items[2].waiting

\* ------------------------------------------------------------ Spec claims, main loop

\* C22: waitForCapacity enters or repeats its wait only while the pool has queued
\* tasks and a tracked task is in flight; a wait ends with the completion of an
\* in-flight task and is followed by one onFlush call, which is made at no other
\* time, and after which the condition is tested again; the function returns to
\* the main loop only when nothing is queued or nothing is in flight.
C22_WaitForCapacity ==
  [][/\ pc' = "race" => (Len(queue') > 0 /\ inFlightPromises' # {})
     /\ (pc' = "scrape" /\ (pc # "scrape" \/ produced' # produced))
          => (Len(queue') = 0 \/ inFlightPromises' = {})
     /\ pc = "race" => (pc' = "onFlush" /\ inFlightPromises' # inFlightPromises)
     /\ pc' = "onFlush" => pc = "race"
     /\ pc = "onFlush" => pc' \in {"onResult", "race", "scrape"}]_vars

C22_Witness ==
  /\ pc = "race"
  /\ produced = 1
  /\ Len(queue) = 1
  /\ Len(sunk) = 1

\* C23: batches are handled in the order the producer yields them, and while main
\* waits for the next batch of the producer no flush is in progress and
\* waitForCapacity has returned for the batch scheduled last: nothing is queued in
\* the pool, or nothing tracked is in flight. A link of a later batch never starts
\* before a link of an earlier one, and the batch queue keeps the producer's order.
C23_NextBatchAfterCapacity ==
  /\ pc = "scrape" => (cur = 0 /\ (Len(queue) = 0 \/ inFlightPromises = {}))
  /\ Len(submitted) = produced
  /\ \A b1, b2 \in 1..Len(pendingBatches) :
       b1 < b2 => BatchOf(pendingBatches[b1][1]) < BatchOf(pendingBatches[b2][1])
  /\ \A x \in Range(queue), y \in Scheduled \ Range(queue) : BatchOf(y) <= BatchOf(x)

C23_Witness ==
  /\ pc = "scrape"
  /\ produced = 2
  /\ Len(pendingBatches) = 2
  /\ Len(submitted[1]) = 3
  /\ Cardinality(active) = 1

\* The outcomes handed to onResult whose status is matched, among the first n.
MatchedAmong(n) == {k \in 1..n : links[sunk[k]].result = "matched"}

\* C24: at most one onResult call is in progress. The calls made and not yet
\* returned are none, or the latest one alone while main awaits it inside
\* flushCompleted or flushAll; every earlier call has returned (its record is
\* counted, and flushCompleted has marked its link flushed), and no call is in
\* progress when main starts a flush operation.
C24_OneRecordAtATime ==
  LET inProgress == Len(sunk) - counts.done IN
    /\ inProgress \in {0, 1}
    /\ inProgress = 1 <=> pc \in {"onResult", "flushAllOnResult"}
    /\ pc \in {"onResult", "flushAllOnResult"} => cur = sunk[Len(sunk)]
    /\ pc \in {"scrape", "race", "onFlush"} => cur = 0
    /\ \A k \in 1..(Len(sunk) - 1) :
         /\ progress[sunk[k]] # None
         /\ sunkBy[k] = "flushCompleted" => links[sunk[k]].flushed

C24_Witness ==
  /\ pc = "flushAllOnResult"
  /\ Len(sunk) = 3
  /\ sunkBy[2] = "flushCompleted"
  /\ counts.done = 2

\* C27: a completed recordResult call leaves done equal to the number of outcomes
\* recorded so far and matches equal to the number of matched ones among them;
\* matches <= done; no counter decreases; the counters change only when a
\* recordResult call completes; after flushAll done is the number of scheduled
\* items.
C27_Counters ==
  [][/\ counts'.done >= counts.done
     /\ counts'.matches >= counts.matches
     /\ counts'.matches <= counts'.done
     /\ counts' # counts => pc \in {"onResult", "flushAllOnResult"}
     /\ (pc \in {"onResult", "flushAllOnResult"} /\ (pc' # pc \/ cur' # cur))
          => /\ counts'.done = Len(sunk)
             /\ counts'.matches = Cardinality(MatchedAmong(Len(sunk)))
     /\ pc' \in {"finalize", "done"} => counts'.done = Cardinality(Scheduled)]_vars

C27_Witness ==
  /\ pc = "done"
  /\ counts = [done |-> 4, matches |-> 2]
  /\ links[sunk[1]].result = "matched"
  /\ links[sunk[4]].result = "evaluation_failed"

\* C26: finalizeProgressLog is called once, when flushAll has returned: every
\* scheduled link has been recorded once and the batch queue is empty. After the
\* call no outcome is handed to the sink, and the call is not made again.
C26_FinalizeOnceAfterFlushAll ==
  [][/\ pc' \in {"finalize", "done"} =>
          /\ pendingBatches' = <<>>
          /\ \A x \in Scheduled : Count(sunk', x) = 1 /\ progress'[x] # None
          /\ counts'.done = Cardinality(Scheduled)
     /\ (pc' = "finalize" /\ pc # "finalize") => pc \in {"scrape", "flushAllOnResult"}
     /\ pc \in {"finalize", "done"} =>
          /\ pc = "finalize" /\ pc' = "done"
          /\ UNCHANGED <<sunk, progress, counts, submitted>>]_vars

C26_Witness ==
  /\ pc = "finalize"
  /\ Len(sunk) = 4
  /\ sunkBy[1] = "flushCompleted"
  /\ sunkBy[4] = "flushAll"

\* ------------------------------------------------------------ Spec claims, flags

\* C30 as stated: a flushed link has every earlier link of its batch flushed.
C30_AfterEarlierSiblings ==
  \A x \in Scheduled :
    links[x].flushed => \A y \in EarlierSiblings(x) : links[y].flushed

\* C30, amended: flushed implies resolved; resolved is set once, by the completion
\* of the link's evaluation, and flushed at most once, by flushCompleted after the
\* link's onResult call, while the link is in the head batch and every link of
\* every earlier batch is flushed; no flag is reset and a stored result is kept.
C30_Flags ==
  [][\A x \in Ids :
       /\ links'[x].flushed => links'[x].resolved
       /\ links[x].resolved =>
            (links'[x].resolved /\ links'[x].result = links[x].result)
       /\ links[x].flushed => links'[x].flushed
       /\ (links'[x].resolved /\ ~links[x].resolved) =>
            (x \in active /\ x \notin active')
       /\ (links'[x].flushed /\ ~links[x].flushed) =>
            /\ pc = "onResult" /\ cur = x
            /\ x \in Range(Head(pendingBatches))
            /\ \A y \in Scheduled : BatchOf(y) < BatchOf(x) => links[y].flushed
       /\ flushCount'[x] <= 1]_vars

C30_Witness ==
  /\ Len(submitted) = 2
  /\ Len(submitted[1]) = 2
  /\ links[1].flushed /\ links[2].flushed /\ links[3].flushed
  /\ links[4].resolved /\ ~links[4].flushed
  /\ sunk = <<2, 1, 3>>

\* ============================================================ interrupt

\* Mutant of Running: process.exit returns and the run goes on.
Running_Always == TRUE

\* The process has not exited.
Running == exitCode = <<>>

\* SIGINT or SIGTERM arrives between two tasks of the event loop (index.ts 72-83):
\* shutdown clears the progress timer, stops the display and exits with code 130.
Interrupt ==
  /\ Running
  /\ pc # "done"
  /\ progressInterval' = FALSE
  /\ spinnerInterval' = FALSE
  /\ exitCode' = <<130>>
  /\ UNCHANGED <<engineVars, evalVars, retryVars, auxVars>>

\* The run of main() with the signal handlers installed: nothing runs in a process
\* that has exited.
NextInterruptible ==
  \/ Running /\ Next
  \/ Interrupt

SpecInterrupt == Init /\ [][NextInterruptible]_vars

\* ------------------------------------------------------------ SpecInterrupt claims

\* C28: the signal handler exits with code 130 after releasing the progress timer
\* and the display, without scheduling, recording or flushing anything itself, and
\* after the exit no step of the run is taken: no batch is scheduled, no evaluation
\* in flight completes, and flushAll, finalizeProgressLog and writeOutput are not
\* called.
C28_InterruptStops ==
  [][/\ (exitCode = <<>> /\ exitCode' # <<>>) =>
          /\ exitCode' = <<130>>
          /\ ~progressInterval' /\ ~spinnerInterval'
          /\ UNCHANGED engineVars
     /\ exitCode # <<>> => FALSE]_vars

C28_Witness ==
  /\ exitCode = <<130>>
  /\ pc = "onResult"
  /\ active # {}
  /\ Len(queue) > 0
  /\ Len(pendingBatches) = 2
  /\ ~progressInterval /\ ~spinnerInterval

\* ============================================================ flushCompleted alone

\* Number of flushCompleted calls a client makes in SpecFlush.
MaxFlushCalls == 3

\* The results links resolve with in SpecFlush: flushCompleted tests only that the
\* result is set (batchProcessor.ts 68) and passes it on, so two statuses stand for
\* the five.
FlushStatuses == {"matched", "not_matched"}

\* The flusher with a client that queues batches, lets links resolve and calls
\* flushCompleted in any order, one call at a time (as main does, index.ts
\* 134-137): the pool and waitForCapacity are left out, so a call that returns
\* gives control back to the client.
InitFlush == Init

flushRest ==
  <<produced, queue, active, inFlightPromises, shellVars, evalVars, retryVars,
    budgetVars, logVars, moreVars>>

\* queueBatch(linkPromises) with n new links (batchProcessor.ts 28-41).
FlusherQueueBatch(n) ==
  /\ pc = "scrape"
  /\ Len(Flatten(submitted)) + n <= MaxLinks
  /\ LET first == Len(Flatten(submitted)) + 1
         batch == [k \in 1..n |-> first + k - 1]
     IN /\ submitted' = Append(submitted, batch)
        /\ pendingBatches' = QueueBatch(pendingBatches, batch)
  /\ UNCHANGED <<pc, links, cur, pos, sunk, sunkBy, flushCount, progress, counts,
                 flushVars, flushRest>>

\* The promise of link x settles with status st: the then handler of queueBatch
\* stores the result and sets resolved (batchProcessor.ts 32-35).
FlusherResolve(x, st) ==
  /\ x \in Scheduled
  /\ ~links[x].resolved
  /\ links' = MarkResolved(links, x, st)
  /\ resolvedSinceFlush' = TRUE
  /\ UNCHANGED <<pc, submitted, pendingBatches, cur, pos, sunk, sunkBy, flushCount,
                 progress, counts, flushCalls, flushRest>>

\* The client calls flushCompleted, which runs to its first await or to its return.
FlushCompletedCall ==
  /\ pc = "scrape"
  /\ flushCalls < MaxFlushCalls
  /\ flushCalls' = flushCalls + 1
  /\ resolvedSinceFlush' = FALSE
  /\ RunFlush(pendingBatches, 1, links, <<>>, {})
  /\ UNCHANGED <<submitted, links, flushCount, counts, flushRest>>

\* onResult returns inside flushCompleted (batchProcessor.ts 70-72).
FlusherRecorded ==
  /\ pc = "onResult"
  /\ counts' = Recount(progress)
  /\ links' = MarkFlushed(links, cur)
  /\ flushCount' = [flushCount EXCEPT ![cur] = IF links'[cur].flushed THEN @ + 1 ELSE @]
  /\ RunFlush(pendingBatches, pos[2] + 1, links', <<>>, {})
  /\ UNCHANGED <<submitted, flushVars, flushRest>>

NextFlush ==
  \/ \E n \in 1..MaxLinks : FlusherQueueBatch(n)
  \/ \E x \in Ids, st \in FlushStatuses : FlusherResolve(x, st)
  \/ FlushCompletedCall
  \/ FlusherRecorded

SpecFlush == InitFlush /\ [][NextFlush]_vars

\* ------------------------------------------------------------ SpecFlush claims

\* C29: a flushCompleted call made when no link has resolved since the previous
\* call was made calls onResult zero times and returns at once, leaving the batch
\* queue and the resolved and flushed flags of every link unchanged.
C29_IdempotentFlush ==
  [][(flushCalls' = flushCalls + 1 /\ flushCalls >= 1 /\ ~resolvedSinceFlush)
       => (pc' = "scrape" /\ UNCHANGED <<pendingBatches, links, sunk, sunkBy>>)]_vars

C29_Witness ==
  /\ flushCalls = 3
  /\ ~resolvedSinceFlush
  /\ pc = "scrape"
  /\ sunk = <<2>>
  /\ Len(pendingBatches) = 2
  /\ \A x \in Ids \ {2} : ~links[x].resolved

\* ============================================================ progress log

\* The writes of log.json: 0 is the write of initProgressLog, k in Ids the write
\* chained by the k-th appendProgressLog call, FinalWrite the write of
\* finalizeProgressLog.
FinalWrite == MaxLinks + 1

\* The records the log holds: appendProgressLog sets progress[key] synchronously.
Appended == {k \in Ids : progress[k] # None}

\* Mutant of StartsNow: appendProgressLog calls writeProgressLog itself.
StartsNow_Always(chain) == TRUE

\* writeChain = previous.then(() => writeProgressLog(progress)): the chained write
\* starts at once only when previous is settled, that is when no chained write is
\* unfinished.
StartsNow(chain) == chain = <<>>

ChainedWriteRuns_Always(isRejected) == TRUE

\* `previous.then(() => writeProgressLog(progress))` (progressLog.ts 154): the
\* callback is the fulfilment handler only, so it runs when previous is fulfilled
\* and is skipped, the new promise rejecting too, when previous is rejected.
ChainedWriteRuns(isRejected) == ~isRejected

\* The progress log with its client. initProgressLog is awaited before the first
\* record and finalizeProgressLog is called after the last appendProgressLog call
\* has returned, as main does (index.ts 60, 140-150); appendProgressLog may be
\* called while earlier calls are still pending, which the write chain is for.
InitLog ==
  /\ InitEngine
  /\ InitShell
  /\ InitEvalIdle
  /\ InitRetryIdle
  /\ InitBudgetIdle
  /\ InitFlushIdle
  /\ InitMoreIdle
  /\ logPhase = "init"
  /\ writeChain = <<>>
  /\ writing = {0}
  /\ started = <<0>>
  /\ returned = {}

logEngine ==
  <<pc, produced, submitted, pendingBatches, links, queue, active, inFlightPromises,
    cur, pos, sunk, sunkBy, flushCount, counts, shellVars, evalVars, retryVars,
    budgetVars, flushVars>>

logRest ==
  <<pc, produced, submitted, pendingBatches, links, queue, active, inFlightPromises,
    cur, pos, sunk, sunkBy, flushCount, counts, shellVars, evalVars, retryVars,
    budgetVars, flushVars, moreVars>>

\* The write of initProgressLog ends and the call returns (progressLog.ts 141).
InitWritten ==
  /\ logPhase = "init"
  /\ logPhase' = "open"
  /\ writing' = writing \ {0}
  /\ UNCHANGED <<progress, writeChain, started, returned, logRest>>

\* appendProgressLog(progress, result) up to its await (progressLog.ts 148-156).
AppendProgressLog(st) ==
  /\ logPhase = "open"
  /\ Cardinality(Appended) < MaxLinks
  /\ LET k == Cardinality(Appended) + 1 IN
       /\ progress' = [progress EXCEPT ![k] = st]
       /\ writeChain' = Append(writeChain, k)
       /\ IF StartsNow(writeChain)
          THEN writing' = writing \cup {k} /\ started' = Append(started, k)
          ELSE UNCHANGED <<writing, started>>
  /\ UNCHANGED <<logPhase, returned, logRest>>

\* writeFile of the chained write k ends: the await of the k-th appendProgressLog
\* call returns, and the write chained behind it starts.
WriteDone(k) ==
  /\ k \in writing /\ k \in Ids
  /\ LET rest == SelectSeq(writeChain, LAMBDA w : w # k)
         next == IF rest # <<>> /\ Head(rest) \notin writing THEN {Head(rest)} ELSE {}
     IN /\ writeChain' = rest
        /\ writing' = (writing \ {k}) \cup next
        /\ started' = IF next = {} THEN started ELSE Append(started, Head(rest))
  /\ returned' = returned \cup {k}
  /\ UNCHANGED <<logPhase, progress, logRest>>

\* finalizeProgressLog up to its await (progressLog.ts 163-166): it calls
\* writeProgressLog directly.
FinalizeProgressLog ==
  /\ logPhase = "open"
  /\ returned = Appended
  /\ logPhase' = "finalizing"
  /\ writing' = writing \cup {FinalWrite}
  /\ started' = Append(started, FinalWrite)
  /\ UNCHANGED <<progress, writeChain, returned, logRest>>

\* The final write ends.
FinalWritten ==
  /\ logPhase = "finalizing"
  /\ logPhase' = "closed"
  /\ writing' = writing \ {FinalWrite}
  /\ UNCHANGED <<progress, writeChain, started, returned, logRest>>

NextLog ==
  \/ InitWritten
  \/ \E st \in RunStatuses : AppendProgressLog(st)
  \/ \E k \in Ids : WriteDone(k)
  \/ FinalizeProgressLog
  \/ FinalWritten

SpecLog == InitLog /\ [][NextLog]_vars

\* ------------------------------------------------------------ SpecLog claims

\* C25: at most one write of the log is in flight, the initial and the final one
\* included; of the chained writes only the oldest unfinished one is in flight, the
\* others have not started; and the writes start in the order they were requested:
\* the initial one, those of the appends in call order, the final one.
C25_OneWriteInFlight ==
  /\ Cardinality(writing) <= 1
  /\ \A j \in 1..Len(writeChain) : writeChain[j] \in writing <=> j = 1
  /\ \A j \in 1..Len(started) :
       \/ started[j] = j - 1
       \/ (started[j] = FinalWrite /\ j = Len(started) /\ j = Cardinality(Appended) + 2)

C25_Witness ==
  /\ writing = {2}
  /\ writeChain = <<2, 3, 4>>
  /\ started = <<0, 1, 2>>
  /\ returned = {1}

\* ------------------------------------------------------------ FairSpec claims, progress

\* C31: with a producer that ends and evaluations that all complete, every wait of
\* waitForCapacity comes back to the main loop, flushAll returns once it has
\* started, and the run reaches its end with the pool idle, nothing in flight,
\* every scheduled link recorded and the batch queue empty.
C31_RunEnds ==
  /\ (pc = "race") ~> (pc = "scrape")
  /\ (pc \in {"flushAllPromise", "flushAllOnResult"}) ~> (pc = "finalize")
  /\ <>(/\ pc = "done"
        /\ pendingBatches = <<>>
        /\ queue = <<>> /\ active = {} /\ inFlightPromises = {}
        /\ \A y \in Scheduled : progress[y] # None
        /\ counts.done = Cardinality(Scheduled))

C31_Witness ==
  /\ pc = "done"
  /\ produced = 2
  /\ Len(submitted[1]) = 3
  /\ counts.done = 4
  /\ sunkBy[4] = "flushAll"

\* ------------------------------------------------------------ Spec claims, backpressure

\* C34: every task waiting in the pool's queue belongs to the batch submitted
\* last, so a new batch is scheduled only when no task of an earlier batch is
\* still queued, and the links scheduled and not yet completed are never more than
\* concurrentLimit plus the size of the batch submitted last.
C34_BackpressureBound ==
  /\ pc = "scrape" => queue = <<>>
  /\ \A x \in Range(queue) : BatchOf(x) = Len(submitted)
  /\ submitted # <<>> =>
       /\ Cardinality({x \in Scheduled : ~links[x].resolved})
            <= concurrentLimit + Len(submitted[Len(submitted)])
       /\ Cardinality(inFlightPromises)
            <= concurrentLimit + Len(submitted[Len(submitted)])

C34_Witness ==
  /\ Len(submitted) = 2
  /\ Len(submitted[2]) = 2
  /\ active = {1, 2}
  /\ queue = <<3, 4>>
  /\ Cardinality(inFlightPromises) = 4

\* ------------------------------------------------------------- SpecFlushFail
\* SpecFlush with a sink that may reject.

\* The promise of onResult rejects inside flushCompleted (batchProcessor.ts
\* 65-72): the await throws out of both loops, the call rejects, and neither the
\* counters of recordResult (index.ts 24-36) nor the flushed flag are written.
\* Bound on the number of rejections of the sink in one behaviour.
MaxRejects == 1

FlusherRecordRejects ==
  /\ pc = "onResult"
  /\ Len(rejected) < MaxRejects
  /\ rejected' = Append(rejected, cur)
  /\ links' = Rejects(links, cur)
  /\ pc' = "scrape"
  /\ cur' = 0
  /\ pos' = <<0, 0>>
  /\ UNCHANGED <<submitted, pendingBatches, sunk, sunkBy, flushCount, progress,
                 counts, flushVars, produced, queue, active, inFlightPromises,
                 shellVars, evalVars, retryVars, budgetVars, logVars,
                 chainRejected, rejectedCalls, unitVars>>

\* Bound on the number of links queued when the sink may reject.
MaxFailLinks == 3

NextFlushFail ==
  \/ NextFlush /\ Len(Flatten(submitted')) <= MaxFailLinks
  \/ FlusherRecordRejects

SpecFlushFail == InitFlush /\ [][NextFlushFail]_vars

\* C35: when onResult rejects during flushCompleted the call rejects with the
\* item's flushed flag still false, no later item is handed over by that call
\* and the batch queue is unchanged; the item stays resolved and unflushed in the
\* head batch, so the next flushCompleted call hands over an item again and
\* reaches the rejected item no later than any item behind it.
C35_RejectedFlush ==
  [][/\ rejected' # rejected =>
          /\ pc = "onResult" /\ pc' = "scrape"
          /\ UNCHANGED <<pendingBatches, sunk, flushCount, links>>
          /\ links'[cur].resolved /\ ~links'[cur].flushed
          /\ cur \in Range(Head(pendingBatches'))
     /\ (/\ flushCalls' = flushCalls + 1
         /\ rejected # <<>>
         /\ ~links[rejected[Len(rejected)]].flushed) =>
          /\ pc' = "onResult"
          /\ sunk' = Append(sunk, cur')
          /\ \E k \in pos'[2]..Len(Head(pendingBatches')) :
               Head(pendingBatches')[k] = rejected[Len(rejected)]]_vars

C35_Witness ==
  /\ rejected = <<1>>
  /\ sunk = <<1, 1>>
  /\ links[1].flushed
  /\ flushCount[1] = 1

\* --------------------------------------------------------------- SpecLogFail
\* SpecLog with a writeFile that may fail.

\* writeFile of the chained write k rejects (progressLog.ts 129): the promise of
\* the k-th appendProgressLog call rejects, and so does every promise chained
\* behind it, none of which runs its write; writeChain is left rejected.
WriteFails(k) ==
  /\ k \in writing /\ k \in Ids
  /\ ~chainRejected
  /\ chainRejected' = TRUE
  /\ rejectedCalls' = rejectedCalls \cup Range(writeChain)
  /\ writeChain' = <<>>
  /\ writing' = writing \ {k}
  /\ UNCHANGED <<logPhase, progress, started, returned, rejected, logEngine,
                 unitVars>>

\* appendProgressLog(progress, result) on a rejected chain (progressLog.ts
\* 148-156): the map is written, the new promise takes over the rejection.
AppendOnRejected(st) ==
  /\ logPhase = "open"
  /\ chainRejected
  /\ Cardinality(Appended) < MaxLinks
  /\ LET k == Cardinality(Appended) + 1 IN
       /\ progress' = [progress EXCEPT ![k] = st]
       /\ IF ChainedWriteRuns(chainRejected)
          THEN /\ writing' = writing \cup {k}
               /\ started' = Append(started, k)
               /\ UNCHANGED rejectedCalls
          ELSE /\ rejectedCalls' = rejectedCalls \cup {k}
               /\ UNCHANGED <<writing, started>>
  /\ UNCHANGED <<logPhase, writeChain, returned, chainRejected, rejected,
                 logEngine, unitVars>>

NextLogFail ==
  \/ ~chainRejected /\ NextLog
  \/ \E k \in Ids : WriteFails(k)
  \/ \E st \in RunStatuses : AppendOnRejected(st)

SpecLogFail == InitLog /\ [][NextLogFail]_vars

\* C36: once a chained write has failed the chain stays rejected: no write of the
\* log starts or is in flight afterwards, every appendProgressLog call that has
\* not returned has rejected, at most one rejected call ever started its write
\* (the one that failed), and every later appendProgressLog call still adds its
\* entry to the progress map but rejects without starting a write.
C36_ChainStaysRejected ==
  [][/\ chainRejected => chainRejected'
     /\ chainRejected' =>
          /\ started' = started
          /\ writing' \cap Ids = {}
          /\ (Appended' \ returned') \subseteq rejectedCalls'
          /\ Cardinality(rejectedCalls' \cap Range(started')) = 1
     /\ (chainRejected /\ Appended' # Appended) =>
          /\ Appended' = Appended \cup {Cardinality(Appended) + 1}
          /\ rejectedCalls' = rejectedCalls \cup {Cardinality(Appended) + 1}
          /\ Cardinality(Appended) + 1 \notin Range(started')]_vars

C36_Witness ==
  /\ chainRejected
  /\ Appended = {1, 2, 3}
  /\ returned = {1}
  /\ rejectedCalls = {2, 3}
  /\ started = <<0, 1, 2>>

\* C33: the reason of an outcome mapped from a thrown error at the per-item
\* boundary is the error's message cut to a bounded length when the message is
\* very long.
C33_ReasonTruncated ==
  (/\ evPc = "done"
   /\ events # <<>>
   /\ events[Len(events)].kind = "threw"
   /\ Len(events[Len(events)].error.message) > ReasonLimit)
    => /\ outcome.status = "evaluation_failed"
       /\ Len(outcome.reason) <= ReasonLimit + 1

\* ================================================================= SpecFetch
\* fetchArticleText and the parseInWorker call inside it (articleFetcher.ts).

\* U+2026, the character failureReason appends to a cut message, in ASCII.
Ellipsis == "..."

\* String.prototype.includes.
Includes(text, part) ==
  \E i \in 1..(Len(text) - Len(part) + 1) : SubSeq(text, i, i + Len(part) - 1) = part

\* error instanceof Error: everything thrown here but a bare value.
IsError(error) == error.class # "NotAnError"

\* error.name: the class's name unless the error carries its own.
NameOf(error) == IF Has(error, "name") THEN error.name ELSE error.class

\* articleFetcher.ts 23-31.
failureReason(error) ==
  IF IsError(error)
  THEN IF NameOf(error) = "TimeoutError" \/ Includes(error.message, "timeout")
       THEN "Timeout"
       ELSE IF Len(error.message) > ReasonLimit
            THEN SubSeq(error.message, 1, ReasonLimit) \o Ellipsis
            ELSE error.message
  ELSE error.text

\* What an await of fetchArticleText's try block can throw: what fetch rejects
\* with, an error with a very long message, a value that is not an Error.
FetchThrown ==
  FetchErrors
  \cup {[class |-> "Error", message |-> LongMessage],
        [class |-> "NotAnError", text |-> "aborted"]}

\* What the worker's error event carries.
WorkerErrors ==
  {[class |-> "Error", message |-> "Cannot find module"],
   [class |-> "Error", message |-> LongMessage],
   [class |-> "Error", message |-> "Script execution timeout"]}

\* What the worker posts (parseWorker.ts): a FetchResult.
WorkerResults ==
  {[ok |-> TRUE, text |-> "article"],
   [ok |-> FALSE, reason |-> "No content extracted"]}

\* The exit codes of a worker: 0 on its own end, 1 after terminate or a crash.
ExitCodes == {0, 1}

\* Mutant of fetchArticleTextCatch: the error is thrown on.
fetchArticleTextCatch_Rethrows(error) == [kind |-> "throw", error |-> error]

\* articleFetcher.ts 95-97: the catch of fetchArticleText, as a completion.
fetchArticleTextCatch(error) ==
  [kind |-> "return", value |-> [ok |-> FALSE, reason |-> failureReason(error)]]

\* Mutant of SettleReturnsEarly: settle has no guard.
SettleReturnsEarly_Never(isSettled) == FALSE

\* articleFetcher.ts 45: `if (settled) return`.
SettleReturnsEarly(isSettled) == isSettled

InitFetch ==
  /\ InitEngine
  /\ InitShell
  /\ InitEvalIdle
  /\ InitRetryIdle
  /\ InitBudgetIdle
  /\ InitLogIdle
  /\ InitFlushIdle
  /\ InitRejectIdle
  /\ InitDedupeIdle
  /\ InitTickIdle
  /\ InitParseIdle
  /\ faPc = "fetchWithRetry"
  /\ faResponse = <<>>
  /\ faThrown = <<>>
  /\ faResult = EmptyObject

fetchRest ==
  <<engineVars, shellVars, evalVars, retryVars, budgetVars, logVars, flushVars,
    rejectVars, dedupeVars, tickVars>>

parseVars ==
  <<worker, timer, parseSettled, parsePromise, fired, firstResult, resolveCalls,
    terminateCalls>>

\* An await of the try block throws (articleFetcher.ts 79-94): the catch runs.
Caught(error) ==
  /\ faThrown' = <<error>>
  /\ LET completion == fetchArticleTextCatch(error) IN
       IF completion.kind = "return"
       THEN faPc' = "returned" /\ faResult' = completion.value
       ELSE faPc' = "rejected" /\ UNCHANGED faResult

\* fetchWithRetry returns a response (articleFetcher.ts 80-89).
FetchResponds(r) ==
  /\ faPc = "fetchWithRetry"
  /\ faResponse' = <<r>>
  /\ IF ~r.ok
     THEN /\ faPc' = "returned"
          /\ faResult' = [ok |-> FALSE, reason |-> "HTTP " \o ToString(r.status)]
     ELSE /\ faPc' = "text"
          /\ UNCHANGED faResult
  /\ UNCHANGED <<faThrown, parseVars, fetchRest>>

\* fetchWithRetry rejects (articleFetcher.ts 80, 95-97).
FetchThrows(error) ==
  /\ faPc = "fetchWithRetry"
  /\ Caught(error)
  /\ UNCHANGED <<faResponse, parseVars, fetchRest>>

\* response.text() returns and parseInWorker is called (articleFetcher.ts 91-92,
\* 35-74 up to the end of the executor): the worker runs, the timer is armed.
TextReturns ==
  /\ faPc = "text"
  /\ faPc' = "parseInWorker"
  /\ worker' = "running"
  /\ timer' = TRUE
  /\ UNCHANGED <<faResponse, faThrown, faResult, parseSettled, parsePromise, fired,
                 firstResult, resolveCalls, terminateCalls, fetchRest>>

\* response.text() rejects (articleFetcher.ts 91, 95-97).
TextThrows(error) ==
  /\ faPc = "text"
  /\ Caught(error)
  /\ UNCHANGED <<faResponse, parseVars, fetchRest>>

\* settle(result) (articleFetcher.ts 44-52), called by the handler of event.
settle(event, result) ==
  /\ fired' = Append(fired, event)
  /\ firstResult' = IF fired = <<>> THEN <<result>> ELSE firstResult
  /\ IF SettleReturnsEarly(parseSettled)
     THEN UNCHANGED <<parseSettled, worker, terminateCalls, resolveCalls, parsePromise>>
     ELSE /\ parseSettled' = TRUE
          /\ worker' = "terminated"
          /\ terminateCalls' = terminateCalls + 1
          /\ resolveCalls' = resolveCalls + 1
          /\ parsePromise' = IF parsePromise = <<>> THEN <<result>> ELSE parsePromise
  /\ UNCHANGED <<faPc, faResponse, faThrown, faResult, fetchRest>>

\* The timer fires (articleFetcher.ts 54).
ParseTimeout ==
  /\ timer
  /\ timer' = FALSE
  /\ settle("timeout", [ok |-> FALSE, reason |-> "Parse timeout"])

\* The worker's message event (articleFetcher.ts 56-60); once.
WorkerMessage(result) ==
  /\ worker # "none" /\ "message" \notin Range(fired)
  /\ timer' = FALSE
  /\ settle("message", result)

\* The worker's error event (articleFetcher.ts 62-66); once.
WorkerError(error) ==
  /\ worker # "none" /\ "error" \notin Range(fired)
  /\ timer' = FALSE
  /\ settle("error", [ok |-> FALSE, reason |-> failureReason(error)])

\* The worker's exit event (articleFetcher.ts 68-72); once.
WorkerExit(code) ==
  /\ worker # "none" /\ "exit" \notin Range(fired)
  /\ timer' = FALSE
  /\ settle("exit", [ok |-> FALSE,
                     reason |-> "Worker exited unexpectedly (code " \o ToString(code) \o ")"])

\* The await of parseInWorker returns (articleFetcher.ts 92-94).
ParseReturns ==
  /\ faPc = "parseInWorker"
  /\ parsePromise # <<>>
  /\ faPc' = "returned"
  /\ faResult' = IF ~parsePromise[1].ok THEN parsePromise[1]
                 ELSE [ok |-> TRUE, text |-> parsePromise[1].text]
  /\ UNCHANGED <<faResponse, faThrown, parseVars, fetchRest>>

NextFetch ==
  \/ \E r \in Responses : FetchResponds(r)
  \/ \E error \in FetchThrown : FetchThrows(error)
  \/ TextReturns
  \/ \E error \in FetchThrown : TextThrows(error)
  \/ ParseTimeout
  \/ \E result \in WorkerResults : WorkerMessage(result)
  \/ \E error \in WorkerErrors : WorkerError(error)
  \/ \E code \in ExitCodes : WorkerExit(code)
  \/ ParseReturns

SpecFetch == InitFetch /\ [][NextFetch]_vars

\* ---------------------------------------------------------- SpecFetch claims

\* C32: fetchArticleText never rejects; once it has returned, its value is
\* {ok: true, text} or {ok: false, reason}: a non-2xx response gives the reason
\* 'HTTP <status>', a thrown error (a failed or timed-out request) gives
\* {ok: false} with 'Timeout' for a timeout, a failed or timed-out extraction is
\* returned as the worker's failure, and success carries the extracted text.
C32_NeverRejects ==
  /\ faPc # "rejected"
  /\ faPc = "returned" =>
       /\ DOMAIN faResult \in {{"ok", "text"}, {"ok", "reason"}}
       /\ faResult.ok <=> DOMAIN faResult = {"ok", "text"}
       /\ (faResponse # <<>> /\ ~faResponse[1].ok) =>
            faResult = [ok |-> FALSE, reason |-> "HTTP " \o ToString(faResponse[1].status)]
       /\ faThrown # <<>> =>
            /\ ~faResult.ok
            /\ NameOf(faThrown[1]) = "TimeoutError" => faResult.reason = "Timeout"
       /\ (parsePromise # <<>> /\ faThrown = <<>>) =>
            IF parsePromise[1].ok
            THEN faResult = [ok |-> TRUE, text |-> parsePromise[1].text]
            ELSE faResult = parsePromise[1]
       /\ faResult.ok => (faResponse # <<>> /\ faResponse[1].ok /\ parsePromise # <<>>)

C32_Witness ==
  /\ faPc = "returned"
  /\ faResponse = <<[ok |-> TRUE, status |-> 200]>>
  /\ faThrown = <<[class |-> "DOMException", name |-> "TimeoutError",
                   message |-> "The operation was aborted due to timeout"]>>
  /\ faResult = [ok |-> FALSE, reason |-> "Timeout"]

\* C37: parseInWorker resolves exactly once whatever the order of the worker's
\* message, error and exit events and the timeout: resolve and terminate are
\* called at most once, and once any of the four events has occurred the promise
\* is resolved with the result of the first event, the worker is terminated and
\* the timer is cleared.
C37_ResolvesOnce ==
  /\ resolveCalls <= 1
  /\ terminateCalls = resolveCalls
  /\ fired # <<>> =>
       /\ parseSettled
       /\ resolveCalls = 1
       /\ worker = "terminated"
       /\ ~timer
       /\ parsePromise = firstResult
  /\ fired = <<>> => (parsePromise = <<>> /\ ~parseSettled)

C37_Witness ==
  /\ fired = <<"exit", "message", "error">>
  /\ firstResult = <<[ok |-> FALSE, reason |-> "Worker exited unexpectedly (code 0)"]>>
  /\ parsePromise = firstResult
  /\ faPc = "returned"

\* ================================================================ SpecDedupe
\* The two filters on the normalized URL between the archive pages and the pool
\* (scraper.ts 114-143, index.ts 97-111) and the key of a record (progressLog.ts
\* 148-150). A URL is its part before the query and the keys of its query
\* parameters, in order; one that `new URL` rejects has valid FALSE.

\* Archive pages read in one behaviour.
MaxPages == 3

\* Links on one archive page.
MaxPageLinks == 2

ParamKeys == {"utm_source", "UTM_Source", "id"}

\* String.prototype.toLowerCase, over ParamKeys.
toLowerCase(k) == IF k = "UTM_Source" THEN "utm_source" ELSE k

Urls ==
  {[valid |-> TRUE, base |-> "https://a", params |-> ps] :
     ps \in {<<>>, <<"utm_source">>, <<"UTM_Source">>}}
  \cup {[valid |-> TRUE, base |-> "https://b", params |-> ps] :
          ps \in {<<"id">>, <<"id", "utm_source">>}}
  \cup {[valid |-> FALSE, base |-> "http:", params |-> <<"utm_source">>]}

\* The link lists extractLinksFromHtml can return for a page.
Pages == UNION {[1..n -> Urls] : n \in 1..MaxPageLinks}

\* url.ts 2-14.
normalizedUrl(url) ==
  IF ~url.valid THEN url
  ELSE [url EXCEPT !.params = SelectSeq(@, LAMBDA k : toLowerCase(k) # "utm_source")]

\* Mutant of KeySeen: no key is ever found in a set.
KeySeen_Never(keys, key) == FALSE

\* Set.prototype.has (scraper.ts 128, index.ts 104).
KeySeen(keys, key) == key \in keys

\* scraper.ts 125-134: the links of a page whose key was not seen before, with
\* the set of keys seen after the page.
RECURSIVE NewLinks(_, _, _, _)
NewLinks(allLinks, i, seenKeys, newLinks) ==
  IF i > Len(allLinks) THEN [links |-> newLinks, seen |-> seenKeys]
  ELSE LET key == normalizedUrl(allLinks[i]) IN
         IF KeySeen(seenKeys, key) THEN NewLinks(allLinks, i + 1, seenKeys, newLinks)
         ELSE NewLinks(allLinks, i + 1, seenKeys \cup {key}, Append(newLinks, allLinks[i]))

\* index.ts 100-109: the links of a batch that are neither recorded nor queued,
\* their url replaced by the key, with the queued set after the batch.
RECURSIVE LinksToProcess(_, _, _, _, _)
LinksToProcess(batch, i, pk, queued, out) ==
  IF i > Len(batch) THEN [links |-> out, queued |-> queued]
  ELSE LET key == normalizedUrl(batch[i]) IN
         IF key \in pk \/ KeySeen(queued, key)
         THEN LinksToProcess(batch, i + 1, pk, queued, out)
         ELSE LinksToProcess(batch, i + 1, pk, queued \cup {key}, Append(out, key))

InitDedupe ==
  /\ InitEngine
  /\ InitShell
  /\ InitEvalIdle
  /\ InitRetryIdle
  /\ InitBudgetIdle
  /\ InitLogIdle
  /\ InitFlushIdle
  /\ InitRejectIdle
  /\ InitFetchIdle
  /\ InitTickIdle
  /\ InitDedupeIdle

dedupeRest ==
  <<engineVars, shellVars, evalVars, retryVars, budgetVars, logVars, flushVars,
    rejectVars, fetchVars, tickVars>>

\* The scraper reads a page and yields its new links, and main's loop body
\* filters them and hands the rest to the pool (scraper.ts 118-141, index.ts
\* 97-132).
ScrapePage(allLinks) ==
  /\ pagesRead < MaxPages
  /\ pagesRead' = pagesRead + 1
  /\ offered' = offered \cup {normalizedUrl(allLinks[i]) : i \in DOMAIN allLinks}
  /\ LET new == NewLinks(allLinks, 1, seen, <<>>)
         todo == LinksToProcess(new.links, 1, progressKeys, queuedUrls, <<>>)
     IN /\ seen' = new.seen
        /\ queuedUrls' = todo.queued
        /\ scheduledUrls' = scheduledUrls \o todo.links
        /\ skipped' = skipped + (Len(allLinks) - Len(todo.links))
  /\ UNCHANGED <<progressKeys, recordedItems, overwrites, dedupeRest>>

\* The result of scheduled item i reaches appendProgressLog (progressLog.ts
\* 148-150): its key is the normalized url of the result.
RecordItem(i) ==
  /\ i \in DOMAIN scheduledUrls
  /\ i \notin recordedItems
  /\ LET key == normalizedUrl(scheduledUrls[i]) IN
       /\ overwrites' = IF key \in progressKeys THEN overwrites + 1 ELSE overwrites
       /\ progressKeys' = progressKeys \cup {key}
  /\ recordedItems' = recordedItems \cup {i}
  /\ UNCHANGED <<seen, queuedUrls, scheduledUrls, offered, skipped, pagesRead,
                 dedupeRest>>

NextDedupe ==
  \/ \E allLinks \in Pages : ScrapePage(allLinks)
  \/ \E i \in 1..(MaxPages * MaxPageLinks) : RecordItem(i)

SpecDedupe == InitDedupe /\ [][NextDedupe]_vars

\* C38: no two scheduled items have the same normalized URL; every key found on
\* a page is queued exactly once, so a link whose key is recorded or queued is
\* skipped; the url of a scheduled item is its own key; and every record
\* creates a new key in the progress map, none overwriting an earlier one.
C38_OneItemPerKey ==
  /\ \A i, j \in DOMAIN scheduledUrls :
       normalizedUrl(scheduledUrls[i]) = normalizedUrl(scheduledUrls[j]) => i = j
  /\ \A i \in DOMAIN scheduledUrls : normalizedUrl(scheduledUrls[i]) = scheduledUrls[i]
  /\ Range(scheduledUrls) = offered
  /\ queuedUrls = offered
  /\ overwrites = 0
  /\ Cardinality(progressKeys) = Cardinality(recordedItems)
  /\ progressKeys = {scheduledUrls[i] : i \in recordedItems}

C38_Witness ==
  /\ pagesRead = 3
  /\ skipped = 4
  /\ Len(scheduledUrls) = 2
  /\ recordedItems = {1, 2}
  /\ scheduledUrls[1] = [valid |-> TRUE, base |-> "https://b", params |-> <<"id">>]

\* ================================================================== SpecTick
\* The promise jobs between the end of a task and the resumption of
\* waitForCapacity (batchProcessor.ts 28-57, index.ts 126-137). A promise's
\* reactions become jobs, in the order they were registered, when it settles, or
\* at once when it is already settled; jobs run oldest first.

\* Tasks scheduled in one behaviour.
MaxTasks == 3

\* Promise.race calls in one behaviour.
MaxRaces == 3

\* Mutant of Registrations: queueBatch's then is registered before trackPromise's
\* finally.
Registrations_ThenFirst == <<"then", "finally">>

\* index.ts 126-132: every promise goes through trackPromise, which registers the
\* finally (batchProcessor.ts 54), before queueBatch registers the then
\* (batchProcessor.ts 32).
Registrations == <<"finally", "then">>

Reaction(kind, race) == [kind |-> kind, race |-> race]

Job(reaction, x) == [kind |-> reaction.kind, race |-> reaction.race, task |-> x]

JobsOf(rs, x) == [k \in DOMAIN rs |-> Job(rs[k], x)]

\* Promise.race(inFlightPromises) over the tasks from x on, in insertion order:
\* a pending promise gets a reaction, a settled one a job.
RECURSIVE RaceOver(_, _, _, _, _)
RaceOver(x, inflight, race, rs, jobs) ==
  IF x > MaxTasks THEN [reactions |-> rs, microtasks |-> jobs]
  ELSE IF x \notin inflight THEN RaceOver(x + 1, inflight, race, rs, jobs)
  ELSE IF taskValue[x] = None
       THEN RaceOver(x + 1, inflight, race,
                     [rs EXCEPT ![x] = Append(@, Reaction("race", race))], jobs)
       ELSE RaceOver(x + 1, inflight, race, rs,
                     Append(jobs, Job(Reaction("race", race), x)))

InitTick == Init

tickEngine ==
  <<pc, produced, queue, active, cur, pos, sunk, sunkBy, flushCount, progress, counts>>

tickRest ==
  <<tickEngine, shellVars, evalVars, retryVars, budgetVars, logVars, flushVars,
    rejectVars, fetchVars, dedupeVars>>

\* main schedules a batch of n tasks (index.ts 126-132): trackPromise adds each
\* promise to the set and registers its finally, queueBatch registers the then.
TickSchedule(n) ==
  /\ waitPc = "idle"
  /\ Len(Flatten(submitted)) + n <= MaxTasks
  /\ LET first == Len(Flatten(submitted)) + 1
         batch == [k \in 1..n |-> first + k - 1]
     IN /\ submitted' = Append(submitted, batch)
        /\ pendingBatches' = QueueBatch(pendingBatches, batch)
        /\ inFlightPromises' = inFlightPromises \cup Range(batch)
        /\ reactions' = [x \in Ids |->
                           IF x \in Range(batch)
                           THEN [k \in DOMAIN Registrations |-> Reaction(Registrations[k], 0)]
                           ELSE reactions[x]]
  /\ UNCHANGED <<links, microtasks, taskValue, waitPc, raceNo, raceSettled, raceWinner,
                 tickRest>>

\* The promise of task x is fulfilled with result st: its reactions become jobs.
TaskFulfils(x, st) ==
  /\ x \in Scheduled
  /\ taskValue[x] = None
  /\ taskValue' = [taskValue EXCEPT ![x] = st]
  /\ microtasks' = microtasks \o JobsOf(reactions[x], x)
  /\ reactions' = [reactions EXCEPT ![x] = <<>>]
  /\ UNCHANGED <<submitted, pendingBatches, links, inFlightPromises, waitPc, raceNo,
                 raceSettled, raceWinner, tickRest>>

\* waitForCapacity reaches `await Promise.race(inFlightPromises)`
\* (batchProcessor.ts 45-46).
AwaitRace ==
  /\ waitPc = "idle"
  /\ inFlightPromises # {}
  /\ raceNo < MaxRaces
  /\ LET r == RaceOver(1, inFlightPromises, raceNo + 1, reactions, microtasks) IN
       /\ reactions' = r.reactions
       /\ microtasks' = r.microtasks
  /\ raceNo' = raceNo + 1
  /\ raceSettled' = FALSE
  /\ raceWinner' = 0
  /\ waitPc' = "awaitRace"
  /\ UNCHANGED <<submitted, pendingBatches, links, inFlightPromises, taskValue, tickRest>>

\* The oldest job runs: the finally of trackPromise (batchProcessor.ts 54), the
\* then of queueBatch (batchProcessor.ts 32-35), the reaction of Promise.race,
\* which settles the race when it is the first and queues the continuation of the
\* await, or that continuation.
RunMicrotask ==
  /\ microtasks # <<>>
  /\ LET job == Head(microtasks) IN
       /\ inFlightPromises' =
            IF job.kind = "finally" THEN inFlightPromises \ {job.task} ELSE inFlightPromises
       /\ links' =
            IF job.kind = "then" THEN MarkResolved(links, job.task, taskValue[job.task])
            ELSE links
       /\ IF job.kind = "race" /\ job.race = raceNo /\ ~raceSettled
          THEN /\ raceSettled' = TRUE
               /\ raceWinner' = job.task
               /\ microtasks' = Append(Tail(microtasks),
                                       Job(Reaction("resume", job.race), job.task))
          ELSE /\ microtasks' = Tail(microtasks)
               /\ UNCHANGED <<raceSettled, raceWinner>>
       /\ waitPc' = IF job.kind = "resume" THEN "onFlush" ELSE waitPc
  /\ UNCHANGED <<submitted, pendingBatches, reactions, taskValue, raceNo, tickRest>>

\* onFlush returns and the loop of waitForCapacity goes round
\* (batchProcessor.ts 45-47).
OnFlushReturns ==
  /\ waitPc = "onFlush"
  /\ waitPc' = "idle"
  /\ UNCHANGED <<submitted, pendingBatches, links, inFlightPromises, microtasks,
                 reactions, taskValue, raceNo, raceSettled, raceWinner, tickRest>>

NextTick ==
  \/ \E n \in 1..MaxTasks : TickSchedule(n)
  \/ \E x \in Ids, st \in FlushStatuses : TaskFulfils(x, st)
  \/ AwaitRace
  \/ RunMicrotask
  \/ OnFlushReturns

SpecTick == InitTick /\ [][NextTick]_vars

\* C39: when waitForCapacity has resumed from Promise.race, the task that
\* settled the race is no longer in the in-flight set and its link is resolved
\* with its result stored; the in-flight set never holds a task whose then
\* callback has run; a resolved link holds the result of its task; and the set is
\* empty once every task has finished and no job is left.
C39_SettledBeforeResume ==
  /\ waitPc = "onFlush" =>
       /\ raceWinner \in Scheduled
       /\ raceWinner \notin inFlightPromises
       /\ links[raceWinner].resolved
       /\ links[raceWinner].result = taskValue[raceWinner]
       /\ taskValue[raceWinner] # None
  /\ \A x \in inFlightPromises : ~links[x].resolved
  /\ \A x \in Ids : links[x].resolved => links[x].result = taskValue[x]
  /\ ((\A x \in Scheduled : taskValue[x] # None) /\ microtasks = <<>>) =>
       inFlightPromises = {}

C39_Witness ==
  /\ waitPc = "onFlush"
  /\ raceNo = 2
  /\ raceWinner = 2
  /\ inFlightPromises = {1}
  /\ taskValue[1] = None
  /\ links[3].resolved

====
